---- MODULE Spec2Model ----
(***************************************************************************)
(* A model of the orchestration core of flarexio/ai: the routing graphs    *)
(* (IIoT supervisor, integration supervisor, survey agent, user-profile    *)
(* manager) and the stream multiplexer BaseAIApp.astream.                  *)
(***************************************************************************)
EXTENDS Integers, Sequences, FiniteSets, TLC

VARIABLES
    app,        \* the graph the session is bound to (Session.app_name)
    history,    \* the session's checkpointed message sequence
    stack,      \* the graph invocations in progress, the innermost last
    status,     \* "idle" | "running" | "done" | "raised": the turn, as its caller sees it
    response,   \* what invoke/ainvoke returned for the turn
    nextId,     \* the next tool-call id the model capability hands out
    calls,      \* model calls made so far in the session
    turns,      \* turns started so far in the session
    events,     \* astream: the graph events received so far, in arrival order
    current_nodes, \* astream: the cursor
    emitted,    \* astream: the chunks yielded so far
    spc,        \* astream: "idle" | "loop" | "done" | "failed"
    sessions,   \* the rows of the sessions table (ChatDatabaseRepository)
    session_id, \* ctx.session_id of the turns: the thread the checkpointer keys
    repo,       \* IIoTMongoDBRepository: customers, factories, survey_factories
    store,      \* the BaseStore namespace ("users", user_id, "profile")
    op,         \* the last node that read or reconciled an entity, and its outcome
    reconciliations, \* reads and reconciliations made so far
    recent_messages, \* the last selection of a context window and its input
    invocation, \* what the last nested agent run was invoked with
    tasks,      \* turns in flight side by side, each with its own graph state
    threads,    \* the checkpointer: the saved history of each thread_id
    delivery    \* a transport's stream_message handler: its position and what it sent

graphVars == <<app, history, stack, status, response, nextId, calls, turns>>
streamVars == <<events, current_nodes, emitted, spc>>
serviceVars == <<sessions, session_id>>
reconcileVars == <<repo, store, op, reconciliations>>
windowVars == <<recent_messages>>
invocationVars == <<invocation>>
taskVars == <<tasks, threads>>
transportVars == <<delivery>>
besidesAgents ==
    <<streamVars, serviceVars, reconcileVars, windowVars, taskVars, transportVars>>
besidesGraph == <<besidesAgents, invocationVars>>
besidesStream ==
    <<graphVars, serviceVars, reconcileVars, windowVars, invocationVars, taskVars,
      transportVars>>
besidesReconcile ==
    <<graphVars, streamVars, serviceVars, windowVars, invocationVars, taskVars,
      transportVars>>
besidesWindow ==
    <<app, stack, status, response, nextId, calls, turns,
      streamVars, serviceVars, reconcileVars, invocationVars, taskVars,
      transportVars>>
vars == <<app, history, stack, status, response, nextId, calls, turns,
          events, current_nodes, emitted, spc, sessions, session_id,
          repo, store, op, reconciliations, recent_messages, invocation, tasks,
          threads, delivery>>

\* no stream_message request is being served
NoDelivery == [transport |-> "none", pc |-> "idle", chunks |-> <<>>, frames |-> <<>>]

TransportIdle == delivery = NoDelivery

----------------------------------------------------------------------------
(* Bounds of the model *)

MaxCalls == 3
MaxTurns == 2
MaxIds == 4
MaxEvents == 4

----------------------------------------------------------------------------
(* Messages.  A content is a sequence of text parts, so that a prefix and a *)
(* contained value can be told apart.                                       *)

NoId == 0
NoMessage == "absent"

HumanMessage(c) ==
    [role |-> "human", content |-> c, tool_calls |-> <<>>, tool_call_id |-> NoId]

AIMessage(c, tcs) ==
    [role |-> "ai", content |-> c, tool_calls |-> tcs, tool_call_id |-> NoId]

ToolMessage(c, id) ==
    [role |-> "tool", content |-> c, tool_calls |-> <<>>, tool_call_id |-> id]

Last(s) == s[Len(s)]
ButLast(s) == SubSeq(s, 1, Len(s) - 1)

\* dict.get(key, default)
Get(args, key, default) == IF key \in DOMAIN args THEN args[key] ELSE default

\* f"error: {e}"
ErrorContent(e) == <<"error: ">> \o e

\* f"error: unknown route {route}"
UnknownRouteContent(route) == <<"error: unknown route ", route>>

----------------------------------------------------------------------------
(* The graphs and their conditional edges *)

TopGraphs == {"iiot", "user_profile_manager"}
NestedGraphs == {"integration_agent", "survey_agent"}
Graphs == TopGraphs \cup NestedGraphs

End == "__end__"
Raised == "__raised__"
Start == "__start__"

\* workflow.add_edge(START, ...): the entry node of each graph, its Router
EntryNode(g) ==
    CASE g = "iiot" -> "supervisor"
      [] g = "integration_agent" -> "supervisor"
      [] g = "survey_agent" -> "model"
      [] g = "user_profile_manager" -> "manager"

\* should_continue with the targets of two routes exchanged
IIoTShouldContinueSwapped(messages) ==
    LET message == Last(messages) IN
    IF Len(message.tool_calls) = 0 THEN End
    ELSE LET route == message.tool_calls[1].args["route"] IN
         IF route = "update_customer" THEN "update_customer"
         ELSE IF route = "survey" THEN "integration_agent"
         ELSE IF route = "integration" THEN "survey_agent"
         ELSE Raised

\* IIoTApp.should_continue
IIoTShouldContinue(messages) ==
    LET message == Last(messages) IN
    IF Len(message.tool_calls) = 0 THEN End
    ELSE LET tool_call == message.tool_calls[1] IN
         IF "route" \notin DOMAIN tool_call.args THEN Raised
         ELSE LET route == tool_call.args["route"] IN
              IF route = "update_customer" THEN "update_customer"
              ELSE IF route = "survey" THEN "survey_agent"
              ELSE IF route = "integration" THEN "integration_agent"
              ELSE Raised

\* create_integration_agent.should_continue
IntegrationShouldContinue(messages) ==
    LET message == Last(messages) IN
    IF Len(message.tool_calls) = 0 THEN End
    ELSE LET tool_call == message.tool_calls[1] IN
         IF "route" \notin DOMAIN tool_call.args THEN Raised
         ELSE LET route == tool_call.args["route"] IN
              IF route = "mapping" THEN "mapping_agent"
              ELSE IF route = "connectivity" THEN "connectivity_agent"
              ELSE "handle_error"

\* create_survey_agent.should_continue
SurveyShouldContinue(messages) ==
    LET message == Last(messages) IN
    IF Len(message.tool_calls) = 0 THEN End
    ELSE LET tool_call == message.tool_calls[1] IN
         IF "update_type" \notin DOMAIN tool_call.args THEN Raised
         ELSE IF tool_call.args["update_type"] = "survey" THEN "update_survey"
         ELSE "handle_error"

\* create_user_profile_manager.route_message
RouteMessage(messages) ==
    LET message == Last(messages) IN
    IF Len(message.tool_calls) = 0 THEN End
    ELSE LET tool_call == message.tool_calls[1] IN
         IF "update_type" \notin DOMAIN tool_call.args THEN Raised
         ELSE IF tool_call.args["update_type"] = "user" THEN "update_user"
         ELSE Raised

\* workflow.add_conditional_edges(<router>, <condition>) of each graph
ConditionalEdge(g, messages) ==
    CASE g = "iiot" -> IIoTShouldContinue(messages)
      [] g = "integration_agent" -> IntegrationShouldContinue(messages)
      [] g = "survey_agent" -> SurveyShouldContinue(messages)
      [] g = "user_profile_manager" -> RouteMessage(messages)

\* workflow.add_edge(<node>, <router>): the unconditional edge that leaves a
\* Worker or the error node
IIoTEdge(node) == "supervisor"
IntegrationEdge(node) == "supervisor"
SurveyEdge(node) == "model"
UserProfileEdge(node) == "manager"

Edge(g, node) ==
    CASE g = "iiot" -> IIoTEdge(node)
      [] g = "integration_agent" -> IntegrationEdge(node)
      [] g = "survey_agent" -> SurveyEdge(node)
      [] g = "user_profile_manager" -> UserProfileEdge(node)

\* workflow.add_node(...): the Worker nodes of each graph
WorkerNodes(g) ==
    CASE g = "iiot" -> {"update_customer", "survey_agent", "integration_agent"}
      [] g = "integration_agent" -> {"mapping_agent", "connectivity_agent"}
      [] g = "survey_agent" -> {"update_survey"}
      [] g = "user_profile_manager" -> {"update_user"}

\* the Literal of RouteIntent.route / UpdateMemory.update_type of each graph
RegisteredRoutes(g) ==
    CASE g = "iiot" -> {"update_customer", "survey", "integration"}
      [] g = "integration_agent" -> {"mapping", "connectivity"}
      [] g = "survey_agent" -> {"survey"}
      [] g = "user_profile_manager" -> {"user"}

\* the argument of the bound tool that carries the decision
RouteKey(g) == IF g \in {"iiot", "integration_agent"} THEN "route" ELSE "update_type"

----------------------------------------------------------------------------
(* What the model capability may answer.  The bound tool (RouteIntent or    *)
(* UpdateMemory) fixes the argument names; the values are the model's.      *)

HumanContents == {<<"hello">>}
ModelContents == {<<"answer">>}
WorkerContents == {<<"result">>}
Exceptions == {<<"boom">>}
SupervisorMessages == {"instruction"}

\* RouteIntent of iiot.py and integration.py, UpdateMemory of survey.py and
\* basic.py, each with one value outside its Literal
RouteValues(g) ==
    CASE g = "iiot" -> {"update_customer", "survey", "integration", "quotation"}
      [] g = "integration_agent" -> {"mapping", "connectivity", "deployment"}
      [] g = "survey_agent" -> {"survey", "factory"}
      [] g = "user_profile_manager" -> {"user", "survey"}

ToolArgs(g) ==
    IF g \in {"iiot", "integration_agent"}
    THEN {[route |-> r, supervisor_message |-> m] :
              r \in RouteValues(g), m \in SupervisorMessages}
    ELSE {[update_type |-> r] : r \in RouteValues(g)}

\* the arguments of the calls after the first: another supervisor_message
RestArgs(g) ==
    IF g \in {"iiot", "integration_agent"}
    THEN {[route |-> r, supervisor_message |-> "other " \o m] :
              r \in RouteValues(g), m \in SupervisorMessages}
    ELSE ToolArgs(g)

ToolName(g) ==
    IF g \in {"iiot", "integration_agent"} THEN "RouteIntent" ELSE "UpdateMemory"

\* the tool-call lists of n calls, their ids fresh from id0 on; the calls
\* after the first carry the same arguments as each other
ToolCallLists(g, n, id0) ==
    {[i \in 1..n |-> [id |-> id0 + i - 1, name |-> ToolName(g),
                       args |-> IF i = 1 THEN first ELSE rest]] :
        first \in ToolArgs(g), rest \in RestArgs(g)}

\* every response the Router's model call may return when ids from id0 are free
ModelResponses(g, id0) ==
    {AIMessage(c, <<>>) : c \in ModelContents}
    \cup UNION {{AIMessage(<<>>, tcs) : tcs \in ToolCallLists(g, n, id0)} :
                   n \in 1..(MaxIds + 1 - id0)}


----------------------------------------------------------------------------
(* Graph execution.  A frame is one graph invocation: its graph, the node   *)
(* to run next, the node that ran last, its state (IIoTState) and the       *)
(* number of messages its input held.                                       *)

NoResponse == <<"__none__">>

Frame(g, messages, supervisor_message) ==
    [graph |-> g, node |-> EntryNode(g), prev |-> Start, base |-> Len(messages),
     messages |-> messages, supervisor_message |-> supervisor_message]

Top == stack[Len(stack)]
Caller == stack[Len(stack) - 1]
SetTop(f) == [stack EXCEPT ![Len(stack)] = f]
Running(g, node) ==
    /\ status = "running"
    /\ Len(stack) > 0
    /\ Top.graph = g
    /\ Top.node = node

\* the checkpointer saves the outermost graph's state after every step that
\* completed; a step that raised leaves the last checkpoint in place
Checkpoint(newStack) ==
    IF Len(newStack) = 1 /\ newStack[1].node # Raised
    THEN newStack[1].messages
    ELSE history

\* the reducer putting the node's message in the place of the last one
NodeReturnsOverwriting(f, msg, next) ==
    [f EXCEPT !.messages = Append(ButLast(f.messages), msg), !.prev = f.node,
              !.node = next]

\* a node returned {"messages": [msg]}: the reducer appends it and the
\* graph follows the edge that leaves the node
NodeReturns(f, msg, next) ==
    [f EXCEPT !.messages = Append(f.messages, msg), !.prev = f.node, !.node = next]

\* a node raised: the graph invocation ends with the exception, and nothing
\* the node wrote is kept
NodeRaises(f) == [f EXCEPT !.prev = f.node, !.node = Raised]

\* the graph invoked without the submitted message
StartTurnWithoutInput ==
    /\ status \in {"idle", "done", "raised"}
    /\ turns < MaxTurns
    /\ stack' = <<Frame(app, history, NoMessage)>>
    /\ status' = "running"
    /\ response' = NoResponse
    /\ turns' = turns + 1
    /\ UNCHANGED <<app, history, nextId, calls>>
    /\ UNCHANGED besidesGraph

\* BaseAIApp.ainvoke / IIoTApp.ainvoke: a turn submits one human message
StartTurn ==
    /\ status \in {"idle", "done", "raised"}
    /\ turns < MaxTurns
    /\ \E c \in HumanContents :
         /\ stack' = <<Frame(app, Append(history, HumanMessage(c)), NoMessage)>>
         /\ history' = Append(history, HumanMessage(c))
    /\ status' = "running"
    /\ response' = NoResponse
    /\ turns' = turns + 1
    /\ UNCHANGED <<app, nextId, calls>>
    /\ UNCHANGED besidesGraph

\* the Router of graph g: one model call, then the conditional edge
RouterStep(g) ==
    /\ Running(g, EntryNode(g))
    /\ calls < MaxCalls
    /\ \/ \E r \in ModelResponses(g, nextId) :
            LET msgs == Append(Top.messages, r)
                f == NodeReturns(Top, r, ConditionalEdge(g, msgs))
            IN /\ stack' = SetTop(f)
               /\ history' = Checkpoint(SetTop(f))
               /\ nextId' = nextId + Len(r.tool_calls)
       \/ /\ stack' = SetTop(NodeRaises(Top))
          /\ UNCHANGED <<history, nextId>>
    /\ calls' = calls + 1
    /\ UNCHANGED <<app, status, response, turns>>

\* IIoTApp.call_supervisor + should_continue
CallSupervisor == RouterStep("iiot") /\ UNCHANGED besidesGraph

\* create_integration_agent.call_supervisor + should_continue
IntegrationCallSupervisor == RouterStep("integration_agent") /\ UNCHANGED besidesGraph

\* create_survey_agent.call_model + should_continue
SurveyCallModel == RouterStep("survey_agent") /\ UNCHANGED besidesGraph

\* create_user_profile_manager.call_model + route_message
ProfileCallModel == RouterStep("user_profile_manager") /\ UNCHANGED besidesGraph

\* the last tool call of the decision taken instead of the first
LastToolCall(messages) == Last(messages).tool_calls[Len(Last(messages).tool_calls)]

\* ai_msg = state["messages"][-1]; tool_call = ai_msg.tool_calls[0]
FirstToolCall(messages) == Last(messages).tool_calls[1]

\* the step of a leaf Worker that has no try/except: it returns a tool
\* message for the first tool call of the last message, or raises
LeafStep(g, node, contents) ==
    /\ Running(g, node)
    /\ LET tool_call == FirstToolCall(Top.messages)
       IN \/ \E c \in contents :
               LET f == NodeReturns(Top, ToolMessage(c, tool_call.id), Edge(g, node))
               IN /\ stack' = SetTop(f)
                  /\ history' = Checkpoint(SetTop(f))
          \/ /\ stack' = SetTop(NodeRaises(Top))
             /\ UNCHANGED history
    /\ UNCHANGED <<app, status, response, nextId, calls, turns>>

\* IIoTApp.update_customer
UpdateCustomer ==
    /\ LeafStep("iiot", "update_customer", {<<"no updates">>, <<"updated customer">>})
    /\ UNCHANGED besidesGraph

\* create_survey_agent.update_survey
UpdateSurvey ==
    /\ LeafStep("survey_agent", "update_survey",
                {<<"no updates">>, <<"updated survey factory">>})
    /\ UNCHANGED besidesGraph

\* create_user_profile_manager.update_user
UpdateUser ==
    /\ LeafStep("user_profile_manager", "update_user",
                {<<"no updates">>, <<"updated user">>})
    /\ UNCHANGED besidesGraph


\* handle_error answering without the id of the offending call
HandleErrorMessageUncorrelated(messages) ==
    LET tool_call == FirstToolCall(messages)
    IN ToolMessage(UnknownRouteContent(Get(tool_call.args, "route", "unknown")), NoId)

\* handle_error of integration.py and of survey.py: both read the "route"
\* argument of the offending call
HandleErrorMessage(messages) ==
    LET tool_call == FirstToolCall(messages)
    IN ToolMessage(UnknownRouteContent(Get(tool_call.args, "route", "unknown")),
                   tool_call.id)

HandleErrorStep(g) ==
    /\ Running(g, "handle_error")
    /\ stack' = SetTop(NodeReturns(Top, HandleErrorMessage(Top.messages),
                                   Edge(g, "handle_error")))
    /\ UNCHANGED <<app, history, status, response, nextId, calls, turns>>

\* create_integration_agent.handle_error
IntegrationHandleError == HandleErrorStep("integration_agent") /\ UNCHANGED besidesGraph

\* create_survey_agent.handle_error
SurveyHandleError == HandleErrorStep("survey_agent") /\ UNCHANGED besidesGraph

\* mapping_agent.ainvoke({"messages": ..., "supervisor_message": ...})
Invocation(node, messages, supervisor_message) ==
    [node |-> node, messages |-> messages, supervisor_message |-> supervisor_message]

NoInvocation == Invocation("none", <<>>, NoMessage)

\* call_mapping_agent / call_connectivity_agent: the nested agent answers or
\* raises inside the try block; the except branch turns the exception into
\* the tool message's content
GuardedAgentStep(node) ==
    /\ Running("integration_agent", node)
    /\ LET tool_call == FirstToolCall(Top.messages)
           failed(e) == SetTop(NodeReturns(Top, ToolMessage(ErrorContent(e), tool_call.id),
                                           Edge("integration_agent", node)))
       IN IF "supervisor_message" \in DOMAIN tool_call.args
          THEN /\ invocation' = Invocation(node, ButLast(Top.messages),
                                           tool_call.args["supervisor_message"])
               /\ \/ \E c \in WorkerContents :
                       stack' = SetTop(NodeReturns(Top, ToolMessage(c, tool_call.id),
                                                   Edge("integration_agent", node)))
                  \/ \E e \in Exceptions : stack' = failed(e)
          ELSE /\ UNCHANGED invocation
               /\ \E e \in Exceptions : stack' = failed(e)
    /\ UNCHANGED <<app, history, status, response, nextId, calls, turns>>

\* create_integration_agent.call_mapping_agent
CallMappingAgent == GuardedAgentStep("mapping_agent") /\ UNCHANGED besidesAgents

\* create_integration_agent.call_connectivity_agent
CallConnectivityAgent == GuardedAgentStep("connectivity_agent") /\ UNCHANGED besidesAgents

\* the nested graph invoked with all of the caller's messages
EnterSubgraphWithDecision(node) ==
    /\ Running("iiot", node)
    /\ LET tool_call == FirstToolCall(Top.messages)
       IN IF "supervisor_message" \in DOMAIN tool_call.args
          THEN stack' = Append(stack, Frame(node, Top.messages,
                                            tool_call.args["supervisor_message"]))
          ELSE stack' = SetTop(NodeRaises(Top))
    /\ UNCHANGED <<app, history, status, response, nextId, calls, turns>>

\* IIoTApp.call_survey_agent / call_integration_agent, first half: the nested
\* graph is invoked with the caller's messages minus the last one
EnterSubgraph(node) ==
    /\ Running("iiot", node)
    /\ LET tool_call == FirstToolCall(Top.messages)
       IN IF "supervisor_message" \in DOMAIN tool_call.args
          THEN stack' = Append(stack, Frame(node, ButLast(Top.messages),
                                            tool_call.args["supervisor_message"]))
          ELSE stack' = SetTop(NodeRaises(Top))
    /\ UNCHANGED <<app, history, status, response, nextId, calls, turns>>

\* content=response["messages"][-1].content
SubgraphResult(messages) == Last(messages).content

\* the caller going on with the nested graph's last message before the
\* nested graph has ended
LeaveSubgraphEarly(node) ==
    /\ status = "running"
    /\ Len(stack) > 1
    /\ Top.graph = node
    /\ Caller.graph = "iiot" /\ Caller.node = node
    /\ LET tool_call == FirstToolCall(Caller.messages)
           tool_msg == ToolMessage(SubgraphResult(Top.messages), tool_call.id)
           newStack == <<NodeReturns(Caller, tool_msg, Edge("iiot", node))>>
       IN /\ stack' = newStack
          /\ history' = Checkpoint(newStack)
    /\ UNCHANGED <<app, status, response, nextId, calls, turns>>

\* second half: the nested graph ended; its last message's content becomes
\* the caller's tool message.  Nothing catches an exception of the nested graph.
LeaveSubgraph(node) ==
    /\ status = "running"
    /\ Len(stack) > 1
    /\ Top.graph = node
    /\ Caller.graph = "iiot" /\ Caller.node = node
    /\ \/ /\ Top.node = End
          /\ LET tool_call == FirstToolCall(Caller.messages)
                 tool_msg == ToolMessage(SubgraphResult(Top.messages), tool_call.id)
                 newStack == <<NodeReturns(Caller, tool_msg, Edge("iiot", node))>>
             IN /\ stack' = newStack
                /\ history' = Checkpoint(newStack)
       \/ /\ Top.node = Raised
          /\ stack' = <<NodeRaises(Caller)>>
          /\ UNCHANGED history
    /\ UNCHANGED <<app, status, response, nextId, calls, turns>>

\* IIoTApp.call_survey_agent
CallSurveyAgent == EnterSubgraph("survey_agent") /\ UNCHANGED besidesGraph
SurveyAgentReturns == LeaveSubgraph("survey_agent") /\ UNCHANGED besidesGraph

\* IIoTApp.call_integration_agent
CallIntegrationAgent == EnterSubgraph("integration_agent") /\ UNCHANGED besidesGraph
IntegrationAgentReturns == LeaveSubgraph("integration_agent") /\ UNCHANGED besidesGraph

\* the first message of the final state returned instead of the last
InvokeResultFirst(messages) == messages[1].content

\* return response["messages"][-1].content
InvokeResult(messages) == Last(messages).content

\* ainvoke returning to its caller only when the graph raised
InvokeEndsOnRaiseOnly ==
    /\ status = "running"
    /\ Len(stack) = 1
    /\ Top.node = Raised
    /\ status' = "raised"
    /\ UNCHANGED <<app, history, stack, response, nextId, calls, turns>>
    /\ UNCHANGED besidesGraph

\* IIoTApp.ainvoke, after self.app.ainvoke: the graph ended and the last
\* message's content is returned, or the graph's exception reaches the caller
InvokeEnds ==
    /\ status = "running"
    /\ Len(stack) = 1
    /\ \/ /\ Top.node = End
          /\ status' = "done"
          /\ response' = InvokeResult(Top.messages)
       \/ /\ Top.node = Raised
          /\ status' = "raised"
          /\ UNCHANGED response
    /\ UNCHANGED <<app, history, stack, nextId, calls, turns>>
    /\ UNCHANGED besidesGraph

GraphInit ==
    /\ app \in TopGraphs
    /\ history = <<>>
    /\ stack = <<>>
    /\ status = "idle"
    /\ response = NoResponse
    /\ nextId = 1
    /\ calls = 0
    /\ turns = 0
    /\ invocation = NoInvocation

----------------------------------------------------------------------------
(* Sessions.  A turn carries ctx.session_id, which the apps hand to the     *)
(* checkpointer as thread_id; the sessions table is kept by                 *)
(* ChatDatabaseRepository.                                                  *)

SessionIds == {"s1", "s2"}

\* Session(id=..., app_name=...)
Session(id, app_name) == [id |-> id, app_name |-> app_name]

\* SELECT id, app_name FROM sessions WHERE id = %s: the rows found; with no
\* row find_session raises ValueError("session not found")
FindSession(rows, id) == {s \in rows : s.id = id}

\* ChatDatabaseRepository.store_session: INSERT INTO sessions, id being the
\* primary key
StoreSession ==
    /\ \E id \in SessionIds :
         /\ FindSession(sessions, id) = {}
         /\ sessions' = sessions \cup {Session(id, app)}
    /\ UNCHANGED session_id
    /\ UNCHANGED <<graphVars, streamVars, reconcileVars, windowVars, invocationVars,
                   taskVars, transportVars>>

\* the session of the turns exists
ServiceIdle ==
    /\ sessions = {Session("s1", app)}
    /\ session_id = "s1"

----------------------------------------------------------------------------
(* Persisted entities.  A document is a function from field names to        *)
(* values; a collection is a function from the ids present to documents.    *)

MaxResponses == 2
MaxReconciliations == 2

Keys == {"k1", "k2"}
Names == {"a", "b"}

EmptyDoc == <<>>

\* doc.pop(key)
Pop(doc, key) == [f \in DOMAIN doc \ {key} |-> doc[f]]

\* doc[key] = val
With(doc, key, val) ==
    [f \in DOMAIN doc \cup {key} |-> IF f = key THEN val ELSE doc[f]]

\* the fields of doc over the defaults of the model class
Merge(defaults, doc) ==
    [f \in DOMAIN defaults \cup DOMAIN doc |->
        IF f \in DOMAIN doc THEN doc[f] ELSE defaults[f]]

\* pydantic: a field declared without default is required.  ok is false
\* where the constructor or model_validate raises ValidationError.
ModelValidate(required, defaults, doc) ==
    [ok |-> required \subseteq DOMAIN doc, value |-> Merge(defaults, doc)]

\* class Customer(BaseModel): customer_id, name and industry have no default
Customer(doc) ==
    ModelValidate({"customer_id", "name", "industry"},
                  [status |-> "survey_pending"], doc)

\* class SurveyFactory(BaseModel)
SurveyFactory(doc) ==
    ModelValidate({"survey_id", "factory_name", "survey_date", "customer_id"},
                  [areas |-> <<>>], doc)

\* class Factory(BaseModel)
Factory(doc) ==
    ModelValidate({"factory_id", "name", "location", "customer_id"},
                  [production_lines |-> <<>>], doc)

\* class UserProfile(BaseModel): every field is Optional with default None
UserProfile(doc) == ModelValidate({}, EmptyDoc, doc)

\* find_customer without doc["customer_id"] = doc.pop("_id")
FindCustomerWithoutKey(customers, customer_id) ==
    IF customer_id \notin DOMAIN customers
    THEN Customer(EmptyDoc)
    ELSE Customer(customers[customer_id])

\* IIoTMongoDBRepository.find_customer: an absent key gives Customer()
FindCustomer(customers, customer_id) ==
    IF customer_id \notin DOMAIN customers
    THEN Customer(EmptyDoc)
    ELSE Customer(With(customers[customer_id], "customer_id", customer_id))

\* IIoTMongoDBRepository.store_customer: replace_one(..., upsert=True)
StoreCustomer(customers, customer) ==
    With(customers, customer.customer_id, Pop(customer, "customer_id"))

\* IIoTMongoDBRepository.list_surveys: the surveys of one customer
ListSurveys(survey_factories, customer_id) ==
    {SurveyFactory(With(survey_factories[k], "survey_id", k)).value :
        k \in {i \in DOMAIN survey_factories :
                  survey_factories[i].customer_id = customer_id}}

\* store_survey as an insert: a survey whose id is taken goes under a new id
StoreSurveyInserting(survey_factories, survey) ==
    LET free == Keys \ DOMAIN survey_factories
    IN IF survey.survey_id \notin DOMAIN survey_factories \/ free = {}
       THEN With(survey_factories, survey.survey_id, Pop(survey, "survey_id"))
       ELSE With(survey_factories, CHOOSE k \in free : TRUE, Pop(survey, "survey_id"))

\* IIoTMongoDBRepository.store_survey
StoreSurvey(survey_factories, survey) ==
    With(survey_factories, survey.survey_id, Pop(survey, "survey_id"))

\* IIoTMongoDBRepository.list_factories
ListFactories(factories, customer_id) ==
    {Factory(With(factories[k], "factory_id", k)).value :
        k \in {i \in DOMAIN factories : factories[i].customer_id = customer_id}}

\* IIoTMongoDBRepository.store_factory
StoreFactory(factories, factory) ==
    With(factories, factory.factory_id, Pop(factory, "factory_id"))

\* IIoTMongoDBRepository.find_factory: an absent key gives Factory()
FindFactory(factories, factory_id) ==
    IF factory_id \notin DOMAIN factories
    THEN Factory(EmptyDoc)
    ELSE Factory(With(factories[factory_id], "factory_id", factory_id))

\* IIoTMongoDBRepository.find_survey: an absent key gives SurveyFactory()
FindSurvey(survey_factories, survey_id) ==
    IF survey_id \notin DOMAIN survey_factories
    THEN SurveyFactory(EmptyDoc)
    ELSE SurveyFactory(With(survey_factories[survey_id], "survey_id", survey_id))

\* surveys[0] if len(surveys) > 0 else None: the documents come in the
\* store's order, so any of them may be the first
FirstOrNone(entities) == IF entities = {} THEN {EmptyDoc} ELSE entities

\* what the extraction capability may return for each schema, one response
\* of each lacking required fields
CustomerResponses ==
    {[customer_id |-> k, name |-> n, industry |-> "steel"] : k \in Keys, n \in Names}
    \cup {[name |-> "a"]}

SurveyResponses ==
    {[survey_id |-> k, factory_name |-> "plant", survey_date |-> "2025-05-20",
      customer_id |-> c] : k \in Keys, c \in Keys}
    \cup {[factory_name |-> "plant"]}

FactoryResponses ==
    {[factory_id |-> k, name |-> "plant", location |-> "city",
      customer_id |-> c] : k \in Keys, c \in Keys}
    \cup {[name |-> "plant"]}

ProfileResponses == {[name |-> n] : n \in Names}

\* result["responses"]
ResponseLists(responses) == UNION {[1..n -> responses] : n \in 0..MaxResponses}

EmptyRepo == [customers |-> <<>>, factories |-> <<>>, survey_factories |-> <<>>]

\* a repository that holds one customer with a survey
PopulatedRepo ==
    [customers |-> With(<<>>, "k1", [name |-> "a", industry |-> "steel",
                                     status |-> "survey_pending"]),
     factories |-> <<>>,
     survey_factories |-> With(<<>>, "k1",
                               [factory_name |-> "plant", survey_date |-> "2025-05-20",
                                customer_id |-> "k1", areas |-> <<>>])]

\* what a node did with the entities: the key of its context, the responses
\* it was given, whether the key was absent, the baseline it went on with,
\* where it raised ("" | "read" | "validate"), the tool message's content
\* and the store writes it made
Operation(node, key, responses, absent, existing, raised, content, writes) ==
    [node |-> node, key |-> key, responses |-> responses,
     before |-> [repo |-> repo, store |-> store],
     absent |-> absent, existing |-> existing, raised |-> raised,
     content |-> content, writes |-> writes]

NoOperation ==
    [node |-> "none", key |-> "", responses |-> <<>>,
     before |-> [repo |-> EmptyRepo, store |-> <<>>],
     absent |-> FALSE, existing |-> EmptyDoc, raised |-> "",
     content |-> <<>>, writes |-> <<>>]

Write(collection, value) == [collection |-> collection, value |-> value]

Counted ==
    /\ reconciliations < MaxReconciliations
    /\ reconciliations' = reconciliations + 1

\* IIoTApp.call_supervisor, the read of the customer: find_customer, then
\* existing_customer = customer.model_dump() if customer
SupervisorFindsCustomer ==
    /\ Counted
    /\ \E customer_id \in Keys :
         LET customer == FindCustomer(repo.customers, customer_id)
             absent == customer_id \notin DOMAIN repo.customers
         IN op' = IF customer.ok
                  THEN Operation("supervisor", customer_id, <<>>, absent,
                                 customer.value, "", <<>>, <<>>)
                  ELSE Operation("supervisor", customer_id, <<>>, absent,
                                 EmptyDoc, "read", <<>>, <<>>)
    /\ UNCHANGED <<repo, store>>
    /\ UNCHANGED besidesReconcile

\* create_survey_agent.call_model, the read of the survey: list_surveys, then
\* existing_survey = surveys[0].model_dump() if there is one, else None
SurveyModelListsSurveys ==
    /\ Counted
    /\ \E customer_id \in Keys :
         LET surveys == ListSurveys(repo.survey_factories, customer_id)
         IN \E existing \in FirstOrNone(surveys) :
              op' = Operation("model", customer_id, <<>>, surveys = {},
                              existing, "", <<>>, <<>>)
    /\ UNCHANGED <<repo, store>>
    /\ UNCHANGED besidesReconcile

\* IIoTApp.update_customer: read, extract, validate the first response,
\* store it
UpdateCustomerEntity ==
    /\ Counted
    /\ \E customer_id \in Keys :
         LET customer == FindCustomer(repo.customers, customer_id)
             absent == customer_id \notin DOMAIN repo.customers
         IN IF ~customer.ok
            THEN /\ op' = Operation("update_customer", customer_id, <<>>, absent,
                                    EmptyDoc, "read", <<>>, <<>>)
                 /\ UNCHANGED repo
            ELSE \E responses \in ResponseLists(CustomerResponses) :
                   IF Len(responses) = 0
                   THEN /\ op' = Operation("update_customer", customer_id, responses,
                                           absent, customer.value, "",
                                           <<"no updates">>, <<>>)
                        /\ UNCHANGED repo
                   ELSE LET updated_customer == Customer(responses[1])
                        IN IF ~updated_customer.ok
                           THEN /\ op' = Operation("update_customer", customer_id,
                                                   responses, absent, customer.value,
                                                   "validate", <<>>, <<>>)
                                /\ UNCHANGED repo
                           ELSE /\ repo' = [repo EXCEPT !.customers =
                                               StoreCustomer(@, updated_customer.value)]
                                /\ op' = Operation("update_customer", customer_id,
                                                   responses, absent, customer.value,
                                                   "", <<"updated customer">>,
                                                   <<Write("customers",
                                                           updated_customer.value)>>)
    /\ UNCHANGED store
    /\ UNCHANGED besidesReconcile

\* for resp in result["responses"]: survey = SurveyFactory.model_validate(resp);
\* repo.store_survey(survey).  stored counts the responses stored before the
\* loop ended or raised.
RECURSIVE StoreSurveys(_, _, _)
StoreSurveys(survey_factories, responses, i) ==
    IF i > Len(responses)
    THEN [collection |-> survey_factories, raised |-> FALSE, stored |-> i - 1]
    ELSE LET survey == SurveyFactory(responses[i])
         IN IF ~survey.ok
            THEN [collection |-> survey_factories, raised |-> TRUE, stored |-> i - 1]
            ELSE StoreSurveys(StoreSurvey(survey_factories, survey.value),
                              responses, i + 1)

\* create_survey_agent.update_survey
UpdateSurveyEntity ==
    /\ Counted
    /\ \E customer_id \in Keys, responses \in ResponseLists(SurveyResponses) :
         LET surveys == ListSurveys(repo.survey_factories, customer_id)
             loop == StoreSurveys(repo.survey_factories, responses, 1)
             writes == [i \in 1..loop.stored |->
                           Write("survey_factories", SurveyFactory(responses[i]).value)]
         IN \E existing \in FirstOrNone(surveys) :
              IF Len(responses) = 0
              THEN /\ op' = Operation("update_survey", customer_id, responses,
                                      surveys = {}, existing, "",
                                      <<"no updates">>, <<>>)
                   /\ UNCHANGED repo
              ELSE /\ repo' = [repo EXCEPT !.survey_factories = loop.collection]
                   /\ op' = Operation("update_survey", customer_id, responses,
                                      surveys = {}, existing,
                                      IF loop.raised THEN "validate" ELSE "",
                                      IF loop.raised THEN <<>>
                                      ELSE <<"updated survey factory">>,
                                      writes)
    /\ UNCHANGED store
    /\ UNCHANGED besidesReconcile

\* for resp in result["responses"]: factory = Factory.model_validate(resp);
\* repo.store_factory(factory)
RECURSIVE StoreFactories(_, _, _)
StoreFactories(factories, responses, i) ==
    IF i > Len(responses)
    THEN [collection |-> factories, raised |-> FALSE, stored |-> i - 1]
    ELSE LET factory == Factory(responses[i])
         IN IF ~factory.ok
            THEN [collection |-> factories, raised |-> TRUE, stored |-> i - 1]
            ELSE StoreFactories(StoreFactory(factories, factory.value),
                                responses, i + 1)

\* create_mapping_agent.update_factory
UpdateFactory ==
    /\ Counted
    /\ \E customer_id \in Keys, responses \in ResponseLists(FactoryResponses) :
         LET factories == ListFactories(repo.factories, customer_id)
             loop == StoreFactories(repo.factories, responses, 1)
             writes == [i \in 1..loop.stored |->
                           Write("factories", Factory(responses[i]).value)]
         IN \E existing \in FirstOrNone(factories) :
              /\ repo' = [repo EXCEPT !.factories = loop.collection]
              /\ op' = Operation("update_factory", customer_id, responses,
                                 factories = {}, existing,
                                 IF loop.raised THEN "validate" ELSE "",
                                 IF loop.raised THEN <<>>
                                 ELSE <<"Factory updated successfully.">>,
                                 writes)
    /\ UNCHANGED store
    /\ UNCHANGED besidesReconcile

\* create_user_profile_manager.update_user: the profile found, or
\* UserProfile(); the first response is put under the key found, or a new one
UpdateUserProfile ==
    /\ Counted
    /\ \E user_id \in Keys, responses \in ResponseLists(ProfileResponses) :
         LET absent == user_id \notin DOMAIN store
             profile == IF absent THEN UserProfile(EmptyDoc)
                        ELSE UserProfile(store[user_id])
         IN IF Len(responses) = 0
            THEN /\ op' = Operation("update_user", user_id, responses, absent,
                                    profile.value, "", <<"no updates">>, <<>>)
                 /\ UNCHANGED store
            ELSE /\ store' = With(store, user_id, responses[1])
                 /\ op' = Operation("update_user", user_id, responses, absent,
                                    profile.value, "", <<"updated user">>,
                                    <<Write("profile", responses[1])>>)
    /\ UNCHANGED repo
    /\ UNCHANGED besidesReconcile

\* the schema-valid entities a caller may hand to the repository
CustomerEntities == {Customer(r).value : r \in {x \in CustomerResponses : Customer(x).ok}}
FactoryEntities == {Factory(r).value : r \in {x \in FactoryResponses : Factory(x).ok}}
SurveyEntities ==
    {SurveyFactory(r).value : r \in {x \in SurveyResponses : SurveyFactory(x).ok}}

\* what a find returned: the entity, or the ValidationError of the read
Found(node, key, absent, entity) ==
    IF entity.ok
    THEN Operation(node, key, <<>>, absent, entity.value, "", <<>>, <<>>)
    ELSE Operation(node, key, <<>>, absent, EmptyDoc, "read", <<>>, <<>>)

\* a call of IIoTMongoDBRepository.store_customer
CallStoreCustomer ==
    /\ Counted
    /\ \E customer \in CustomerEntities :
         /\ repo' = [repo EXCEPT !.customers = StoreCustomer(@, customer)]
         /\ op' = Operation("store_customer", customer.customer_id, <<>>,
                            customer.customer_id \notin DOMAIN repo.customers,
                            EmptyDoc, "", <<>>, <<Write("customers", customer)>>)
    /\ UNCHANGED store
    /\ UNCHANGED besidesReconcile

\* a call of IIoTMongoDBRepository.find_customer
CallFindCustomer ==
    /\ Counted
    /\ \E customer_id \in Keys :
         op' = Found("find_customer", customer_id,
                     customer_id \notin DOMAIN repo.customers,
                     FindCustomer(repo.customers, customer_id))
    /\ UNCHANGED <<repo, store>>
    /\ UNCHANGED besidesReconcile

\* a call of IIoTMongoDBRepository.store_factory
CallStoreFactory ==
    /\ Counted
    /\ \E factory \in FactoryEntities :
         /\ repo' = [repo EXCEPT !.factories = StoreFactory(@, factory)]
         /\ op' = Operation("store_factory", factory.factory_id, <<>>,
                            factory.factory_id \notin DOMAIN repo.factories,
                            EmptyDoc, "", <<>>, <<Write("factories", factory)>>)
    /\ UNCHANGED store
    /\ UNCHANGED besidesReconcile

\* a call of IIoTMongoDBRepository.find_factory
CallFindFactory ==
    /\ Counted
    /\ \E factory_id \in Keys :
         op' = Found("find_factory", factory_id,
                     factory_id \notin DOMAIN repo.factories,
                     FindFactory(repo.factories, factory_id))
    /\ UNCHANGED <<repo, store>>
    /\ UNCHANGED besidesReconcile

\* a call of IIoTMongoDBRepository.store_survey
CallStoreSurvey ==
    /\ Counted
    /\ \E survey \in SurveyEntities :
         /\ repo' = [repo EXCEPT !.survey_factories = StoreSurvey(@, survey)]
         /\ op' = Operation("store_survey", survey.survey_id, <<>>,
                            survey.survey_id \notin DOMAIN repo.survey_factories,
                            EmptyDoc, "", <<>>, <<Write("survey_factories", survey)>>)
    /\ UNCHANGED store
    /\ UNCHANGED besidesReconcile

\* a call of IIoTMongoDBRepository.find_survey
CallFindSurvey ==
    /\ Counted
    /\ \E survey_id \in Keys :
         op' = Found("find_survey", survey_id,
                     survey_id \notin DOMAIN repo.survey_factories,
                     FindSurvey(repo.survey_factories, survey_id))
    /\ UNCHANGED <<repo, store>>
    /\ UNCHANGED besidesReconcile

\* no node has touched the entities
ReconcileIdle ==
    /\ repo = EmptyRepo
    /\ store = <<>>
    /\ op = NoOperation
    /\ reconciliations = 0

----------------------------------------------------------------------------
(* The context window.  trim_messages is called with strategy "last",       *)
(* token_counter=len (one unit per message), max_tokens=10 and              *)
(* start_on="human"; the reconciliation Workers of the iiot graphs add      *)
(* end_on=["human", "ai"].                                                  *)

MaxTokens == 10
MaxMessages == 11

Reverse(s) == [i \in 1..Len(s) |-> s[Len(s) + 1 - i]]

\* the greatest number of a non-empty set of naturals
Greatest(S) == CHOOSE i \in S : \A j \in S : j <= i

\* _is_message_type
IsMessageType(message, types) == message.role \in types

\* while idx > 0 and not _is_message_type(messages[idx - 1], end_on): idx -= 1
\* (an empty end_on is None: nothing is dropped)
EndingOn(messages, idx, end_on) ==
    IF end_on = {} THEN idx
    ELSE Greatest({i \in 0..idx : i = 0 \/ IsMessageType(messages[i], end_on)})

\* _first_max_tokens keeping one message less than fits
FirstMaxTokensOneLess(messages, max_tokens, end_on) ==
    LET idx == IF Len(messages) < max_tokens THEN Len(messages) ELSE max_tokens - 1
    IN SubSeq(messages, 1, EndingOn(messages, idx, end_on))

\* _first_max_tokens: the longest prefix whose count fits, cut back to end
\* on a message of a type in end_on
FirstMaxTokens(messages, max_tokens, end_on) ==
    LET idx == IF Len(messages) <= max_tokens THEN Len(messages) ELSE max_tokens
    IN SubSeq(messages, 1, EndingOn(messages, idx, end_on))

\* _last_max_tokens without the cut to start_on
LastMaxTokensAnyStart(messages, max_tokens, start_on, end_on) ==
    LET kept == SubSeq(messages, 1, EndingOn(messages, Len(messages), end_on))
    IN Reverse(FirstMaxTokens(Reverse(kept), max_tokens, {}))

\* _last_max_tokens: the trailing messages not of a type in end_on are
\* popped, then _first_max_tokens runs on the reversed list with start_on
\* as its end_on
LastMaxTokens(messages, max_tokens, start_on, end_on) ==
    LET kept == SubSeq(messages, 1, EndingOn(messages, Len(messages), end_on))
    IN Reverse(FirstMaxTokens(Reverse(kept), max_tokens, start_on))

\* trim_messages(messages, max_tokens=..., token_counter=len, start_on=...,
\* end_on=...): the strategy defaults to "last"
TrimMessages(messages, max_tokens, start_on, end_on) ==
    LastMaxTokens(messages, max_tokens, start_on, end_on)

SystemMessage(c) ==
    [role |-> "system", content |-> c, tool_calls |-> <<>>, tool_call_id |-> NoId]

\* merge_message_runs: a message of the type of the one before it is merged
\* into it, unless it is a tool message
RECURSIVE MergeMessageRuns(_)
MergeMessageRuns(messages) ==
    IF Len(messages) <= 1 THEN messages
    ELSE LET merged == MergeMessageRuns(ButLast(messages))
             last == Last(merged)
             curr == Last(messages)
         IN IF curr.role = "tool" \/ curr.role # last.role
            THEN Append(merged, curr)
            ELSE Append(ButLast(merged),
                        [last EXCEPT !.content = @ \o curr.content,
                                     !.tool_calls = @ \o curr.tool_calls])

\* the end_on of the Worker's trim_messages: update_user passes none
EndOn(node) == IF node = "update_user" THEN {} ELSE {"human", "ai"}

\* updated_messages of update_customer, update_survey and update_user: the
\* prompt, then recent_messages[:-1], merged; it is what the extractor gets
UpdatedMessages(node, messages) ==
    MergeMessageRuns(
        <<SystemMessage(<<"prompt">>)>>
        \o ButLast(TrimMessages(messages, MaxTokens, {"human"}, EndOn(node))))

\* the messages a history is made of, one of each type
WindowMessages ==
    {HumanMessage(<<"hello">>), AIMessage(<<"answer">>, <<>>),
     ToolMessage(<<"result">>, 1)}

NoWindow == [node |-> "none", messages |-> <<>>, window |-> <<>>]

WindowIdle == recent_messages = NoWindow

\* a message is added to state["messages"]
MessageArrives ==
    /\ Len(history) < MaxMessages
    /\ \E m \in WindowMessages : history' = Append(history, m)
    /\ recent_messages' = NoWindow
    /\ UNCHANGED besidesWindow

\* call_supervisor / call_model: the window of the Router
SupervisorTrims ==
    /\ recent_messages = NoWindow
    /\ recent_messages' =
          [node |-> "supervisor", messages |-> history,
           window |-> TrimMessages(history, MaxTokens, {"human"}, {})]
    /\ UNCHANGED history
    /\ UNCHANGED besidesWindow

\* update_customer / update_survey: the window of the Worker
WorkerTrims ==
    /\ recent_messages = NoWindow
    /\ recent_messages' =
          [node |-> "worker", messages |-> history,
           window |-> TrimMessages(history, MaxTokens, {"human"}, {"human", "ai"})]
    /\ UNCHANGED history
    /\ UNCHANGED besidesWindow

\* no turn runs beside another
TasksIdle ==
    /\ tasks = <<>>
    /\ threads = <<>>

----------------------------------------------------------------------------
(* Turns side by side.  Every send_message / stream_message request is a    *)
(* coroutine of its own that calls ainvoke or astream; nothing holds a      *)
(* second one back.  Each run of the graph loads the thread's checkpoint,   *)
(* keeps its own channel values and saves them after every step.            *)

MaxTasks == 2

TaskIds == 1..MaxTasks

\* what a turn's message asks to change in the customer
Patches == {[name |-> "b"], [industry |-> "food"]}

IdleTask ==
    [session |-> "", customer_id |-> "", patch |-> EmptyDoc, pc |-> "idle",
     messages |-> <<>>, baseline |-> EmptyDoc, steps |-> 0, started |-> 0]

\* a repository that holds every customer
CustomersRepo ==
    [customers |-> [k \in Keys |-> [name |-> "a", industry |-> "steel",
                                    status |-> "survey_pending"]],
     factories |-> <<>>,
     survey_factories |-> <<>>]

Active(t) == tasks[t].pc \notin {"idle", "done"}

Started == Cardinality({t \in TaskIds : tasks[t].pc # "idle"})

besidesTasks ==
    <<graphVars, streamVars, serviceVars, windowVars, invocationVars,
      store, op, reconciliations, transportVars>>

\* the task's graph took a step: its channel values are saved under its thread
Saved(t, task) ==
    /\ tasks' = [tasks EXCEPT ![t] = task]
    /\ threads' = [threads EXCEPT ![task.session] = task.messages]

\* BaseAIApp.ainvoke up to self.app.ainvoke: the graph starts from the
\* thread's checkpoint with the submitted message appended
Ainvoke(t) ==
    /\ tasks[t].pc = "idle"
    /\ \E s \in SessionIds, c \in Keys, p \in Patches :
         Saved(t, [session |-> s, customer_id |-> c, patch |-> p,
                   pc |-> "supervisor",
                   messages |-> Append(threads[s], HumanMessage(<<"hello">>)),
                   baseline |-> EmptyDoc, steps |-> 0, started |-> Started + 1])
    /\ UNCHANGED repo
    /\ UNCHANGED besidesTasks

\* IIoTApp.call_supervisor with should_continue: the Router sends a
\* submitted message to update_customer or answers it, and answers a tool
\* message
TaskCallSupervisor(t) ==
    /\ tasks[t].pc = "supervisor"
    /\ LET task == tasks[t]
           route == AIMessage(<<>>, <<[id |-> t, name |-> "RouteIntent",
                                       args |-> [route |-> "update_customer",
                                                 supervisor_message |-> "instruction"]]>>)
           answer == AIMessage(<<"answer">>, <<>>)
       IN \/ /\ Last(task.messages).role = "human"
             /\ Saved(t, [task EXCEPT !.messages = Append(@, route),
                                      !.pc = "update_customer",
                                      !.steps = @ + 1])
          \/ Saved(t, [task EXCEPT !.messages = Append(@, answer),
                                   !.pc = "end",
                                   !.steps = @ + 1])
    /\ UNCHANGED repo
    /\ UNCHANGED besidesTasks

\* what the extractor returns for responses[0]: the existing document with
\* what the conversation says put over it
Extract(existing, patch) == Merge(existing, patch)

\* IIoTApp.update_customer up to extractor.invoke: the baseline is read
TaskUpdateCustomerReads(t) ==
    /\ tasks[t].pc = "update_customer"
    /\ LET customer == FindCustomer(repo.customers, tasks[t].customer_id)
       IN tasks' = [tasks EXCEPT ![t].baseline = customer.value,
                                 ![t].pc = IF customer.ok THEN "extract" ELSE "done",
                                 ![t].steps = @ + 1]
    /\ UNCHANGED <<repo, threads>>
    /\ UNCHANGED besidesTasks

\* IIoTApp.update_customer from the extractor's result on: the first
\* response is validated and stored, and the tool message returned
TaskUpdateCustomerStores(t) ==
    /\ tasks[t].pc = "extract"
    /\ LET task == tasks[t]
           updated_customer == Customer(Extract(task.baseline, task.patch))
       IN /\ repo' = [repo EXCEPT !.customers = StoreCustomer(@, updated_customer.value)]
          /\ Saved(t, [task EXCEPT
                          !.messages = Append(@, ToolMessage(<<"updated customer">>, t)),
                          !.pc = "supervisor"])
    /\ UNCHANGED besidesTasks

\* BaseAIApp.ainvoke returns response["messages"][-1].content
TaskEnds(t) ==
    /\ tasks[t].pc = "end"
    /\ tasks' = [tasks EXCEPT ![t].pc = "done"]
    /\ UNCHANGED <<repo, threads>>
    /\ UNCHANGED besidesTasks

----------------------------------------------------------------------------
(* BaseAIApp.astream.  An Optional value is a sequence of at most one       *)
(* element: <<>> is None.                                                   *)

None == <<>>
Some(x) == <<x>>

\* the namespaces (node paths) a graph event may carry; () is the root graph
NodePaths == {<<>>, <<"survey_agent">>, <<"integration_agent", "mapping_agent">>}

\* the classes of the message of a graph event: an AIMessage that is no
\* AIMessageChunk matches neither isinstance test
MessageTypes == {"AIMessageChunk", "ToolMessage", "AIMessage"}

GraphEvents ==
    {[nodes |-> n, type |-> t, content |-> <<"text">>,
      tool_call_id |-> IF t = "ToolMessage" THEN 1 ELSE NoId] :
        n \in NodePaths, t \in MessageTypes}

\* MessageChunk(...): is_new defaults to False
MessageChunk(nodes, role, content, tool_call_id, is_new) ==
    [nodes |-> nodes, role |-> role, content |-> content,
     tool_call_id |-> tool_call_id, is_new |-> is_new]

\* True if current_nodes != nodes else False
IsNew(cursor, nodes) == cursor # Some(nodes)

\* the tool branch of the loop body left out
ChunksForAIOnly(event, cursor) ==
    IF event.type = "AIMessageChunk"
    THEN <<MessageChunk(event.nodes, "ai", event.content, NoId,
                        IsNew(cursor, event.nodes))>>
    ELSE <<>>

\* the chunks one event makes astream yield
ChunksFor(event, cursor) ==
    IF event.type = "AIMessageChunk"
    THEN <<MessageChunk(event.nodes, "ai", event.content, NoId,
                        IsNew(cursor, event.nodes))>>
    ELSE IF event.type = "ToolMessage"
    THEN <<MessageChunk(event.nodes, "tool", event.content, event.tool_call_id,
                        IsNew(cursor, event.nodes))>>
    ELSE <<>>

\* the cursor moved only by the events that yield a chunk
NextCursorOnYield(event, cursor) ==
    IF event.type \in {"AIMessageChunk", "ToolMessage"} THEN Some(event.nodes) ELSE cursor

\* current_nodes = nodes, at the end of the loop body
NextCursor(event, cursor) == Some(event.nodes)

\* the except branch: nodes=list(nodes) if current_nodes else [], and
\* is_new is left at its default
ErrorChunk(nodes, cursor, e) ==
    MessageChunk(IF cursor # None /\ cursor # Some(<<>>) THEN nodes ELSE <<>>,
                 "ai", ErrorContent(e), NoId, FALSE)

\* astream is called: current_nodes = None
StreamIdle ==
    /\ events = <<>>
    /\ current_nodes = None
    /\ emitted = <<>>
    /\ spc = "idle"

StreamInit ==
    /\ app = "iiot"
    /\ history = <<>>
    /\ stack = <<>>
    /\ status = "idle"
    /\ response = NoResponse
    /\ nextId = 1
    /\ calls = 0
    /\ turns = 0
    /\ invocation = NoInvocation
    /\ events = <<>>
    /\ current_nodes = None
    /\ emitted = <<>>
    /\ spc = "loop"
    /\ ServiceIdle
    /\ ReconcileIdle
    /\ WindowIdle
    /\ TasksIdle
    /\ TransportIdle

\* one pass of the async for body
StreamEvent ==
    /\ spc = "loop"
    /\ Len(events) < MaxEvents
    /\ \E event \in GraphEvents :
         /\ events' = Append(events, event)
         /\ emitted' = emitted \o ChunksFor(event, current_nodes)
         /\ current_nodes' = NextCursor(event, current_nodes)
    /\ UNCHANGED spc
    /\ UNCHANGED besidesStream

\* an event arrived and building its chunk raised
StreamChunkFails ==
    /\ spc = "loop"
    /\ Len(events) < MaxEvents
    /\ \E event \in GraphEvents, e \in Exceptions :
         /\ event.type \in {"AIMessageChunk", "ToolMessage"}
         /\ events' = Append(events, event)
         /\ emitted' = Append(emitted, ErrorChunk(event.nodes, current_nodes, e))
    /\ spc' = "failed"
    /\ UNCHANGED current_nodes
    /\ UNCHANGED besidesStream

\* the except branch swallowing the exception without a chunk
StreamGraphFailsSilently ==
    /\ spc = "loop"
    /\ spc' = "failed"
    /\ UNCHANGED <<events, current_nodes, emitted>>
    /\ UNCHANGED besidesStream

\* self.app.astream raised instead of yielding the next event; nodes is
\* still bound to the last event's, if there was one
StreamGraphFails ==
    /\ spc = "loop"
    /\ \E e \in Exceptions :
         emitted' = Append(emitted,
                           ErrorChunk(IF events = <<>> THEN <<>> ELSE Last(events).nodes,
                                      current_nodes, e))
    /\ spc' = "failed"
    /\ UNCHANGED <<events, current_nodes>>
    /\ UNCHANGED besidesStream

\* self.app.astream is exhausted
StreamEnds ==
    /\ spc = "loop"
    /\ spc' = "done"
    /\ UNCHANGED <<events, current_nodes, emitted>>
    /\ UNCHANGED besidesStream

StreamNext ==
    \/ StreamEvent
    \/ StreamChunkFails
    \/ StreamGraphFails
    \/ StreamEnds

StreamSpec == StreamInit /\ [][StreamNext]_vars

Init ==
    GraphInit /\ StreamIdle /\ ServiceIdle /\ ReconcileIdle /\ WindowIdle /\ TasksIdle
    /\ TransportIdle

Next ==
    \/ StartTurn
    \/ CallSupervisor
    \/ IntegrationCallSupervisor
    \/ SurveyCallModel
    \/ ProfileCallModel
    \/ UpdateCustomer
    \/ UpdateSurvey
    \/ UpdateUser
    \/ IntegrationHandleError
    \/ SurveyHandleError
    \/ CallMappingAgent
    \/ CallConnectivityAgent
    \/ CallSurveyAgent
    \/ SurveyAgentReturns
    \/ CallIntegrationAgent
    \/ IntegrationAgentReturns
    \/ InvokeEnds

Spec == Init /\ [][Next]_vars

\* turns under a session id that the sessions table may not hold, on the
\* graph of BasicAIApp's profile manager
SessionInit ==
    /\ GraphInit
    /\ app = "user_profile_manager"
    /\ StreamIdle
    /\ ReconcileIdle
    /\ WindowIdle
    /\ TasksIdle
    /\ TransportIdle
    /\ sessions = {}
    /\ session_id \in SessionIds

SessionNext ==
    \/ StoreSession
    \/ StartTurn
    \/ ProfileCallModel
    \/ UpdateUser
    \/ InvokeEnds

SessionSpec == SessionInit /\ [][SessionNext]_vars

\* the nodes that read and reconcile the persisted entities
ReconcileInit ==
    /\ GraphInit
    /\ app = "iiot"
    /\ StreamIdle
    /\ ServiceIdle
    /\ repo \in {EmptyRepo, PopulatedRepo}
    /\ store \in {<<>>, With(<<>>, "k1", [name |-> "a"])}
    /\ op = NoOperation
    /\ reconciliations = 0
    /\ WindowIdle
    /\ TasksIdle
    /\ TransportIdle

ReconcileNext ==
    \/ SupervisorFindsCustomer
    \/ SurveyModelListsSurveys
    \/ UpdateCustomerEntity
    \/ UpdateSurveyEntity
    \/ UpdateFactory
    \/ UpdateUserProfile

ReconcileSpec == ReconcileInit /\ [][ReconcileNext]_vars

\* the reconciliation Workers run again and again over a populated
\* repository and store
RerunInit ==
    /\ GraphInit
    /\ app = "iiot"
    /\ StreamIdle
    /\ ServiceIdle
    /\ repo = PopulatedRepo
    /\ store = With(<<>>, "k1", [name |-> "a"])
    /\ op = NoOperation
    /\ reconciliations = 0
    /\ WindowIdle
    /\ TasksIdle
    /\ TransportIdle

RerunNext ==
    \/ UpdateCustomerEntity
    \/ UpdateSurveyEntity
    \/ UpdateUserProfile

RerunSpec == RerunInit /\ [][RerunNext]_vars

\* the calls of the repository on their own
RepositoryInit ==
    /\ GraphInit
    /\ app = "iiot"
    /\ StreamIdle
    /\ ServiceIdle
    /\ repo \in {EmptyRepo, PopulatedRepo}
    /\ store = <<>>
    /\ op = NoOperation
    /\ reconciliations = 0
    /\ WindowIdle
    /\ TasksIdle
    /\ TransportIdle

RepositoryNext ==
    \/ CallStoreCustomer
    \/ CallFindCustomer
    \/ CallStoreFactory
    \/ CallFindFactory
    \/ CallStoreSurvey
    \/ CallFindSurvey

RepositorySpec == RepositoryInit /\ [][RepositoryNext]_vars

\* the selection of the context window over every message sequence
WindowInit ==
    /\ GraphInit
    /\ app = "iiot"
    /\ StreamIdle
    /\ ServiceIdle
    /\ ReconcileIdle
    /\ WindowIdle
    /\ TasksIdle
    /\ TransportIdle

WindowNext ==
    \/ MessageArrives
    \/ SupervisorTrims
    \/ WorkerTrims

WindowSpec == WindowInit /\ [][WindowNext]_vars

\* turns submitted side by side, under one session id or under two
TasksInit ==
    /\ GraphInit
    /\ app = "iiot"
    /\ StreamIdle
    /\ ServiceIdle
    /\ WindowIdle
    /\ repo = CustomersRepo
    /\ store = <<>>
    /\ op = NoOperation
    /\ reconciliations = 0
    /\ tasks = [t \in TaskIds |-> IdleTask]
    /\ threads = [s \in SessionIds |-> <<>>]
    /\ TransportIdle

TasksNext ==
    \/ \E t \in TaskIds : Ainvoke(t)
    \/ \E t \in TaskIds : TaskCallSupervisor(t)
    \/ \E t \in TaskIds : TaskUpdateCustomerReads(t)
    \/ \E t \in TaskIds : TaskUpdateCustomerStores(t)
    \/ \E t \in TaskIds : TaskEnds(t)

TasksSpec == TasksInit /\ [][TasksNext]_vars


----------------------------------------------------------------------------
(* Properties of the routing graphs *)

Frames == {stack[i] : i \in 1..Len(stack)}

IsDecision(m) == m.role = "ai" /\ Len(m.tool_calls) > 0

\* the route (or update type) the first tool call of a decision names
DecidedRoute(g, m) == m.tool_calls[1].args[RouteKey(g)]

\* the Router of f ran last and left a decision as the last message
JustDecided(f) ==
    /\ f.prev = EntryNode(f.graph)
    /\ Len(f.messages) > 0
    /\ IsDecision(Last(f.messages))

\* the Worker registered for a route
WorkerFor(g, r) ==
    CASE g = "iiot" /\ r = "update_customer" -> "update_customer"
      [] g = "iiot" /\ r = "survey" -> "survey_agent"
      [] g = "iiot" /\ r = "integration" -> "integration_agent"
      [] g = "integration_agent" /\ r = "mapping" -> "mapping_agent"
      [] g = "integration_agent" /\ r = "connectivity" -> "connectivity_agent"
      [] g = "survey_agent" /\ r = "survey" -> "update_survey"
      [] g = "user_profile_manager" /\ r = "user" -> "update_user"

DecidedRegistered(f) ==
    /\ JustDecided(f)
    /\ DecidedRoute(f.graph, Last(f.messages)) \in RegisteredRoutes(f.graph)

RoutedToWorker ==
    \A f \in Frames :
        (f.graph \in {"iiot", "integration_agent"} /\ DecidedRegistered(f))
            => f.node = WorkerFor(f.graph, DecidedRoute(f.graph, Last(f.messages)))

WorkerRunsFirst ==
    \A i \in 1..Len(stack) :
        ( /\ stack[i].graph \in {"iiot", "integration_agent"}
          /\ DecidedRegistered(stack[i])
          /\ turns' = turns
          /\ i <= Len(stack')
          /\ stack'[i] # stack[i] )
            => stack'[i].prev =
                   WorkerFor(stack[i].graph, DecidedRoute(stack[i].graph, Last(stack[i].messages)))

\* C1: in the top-level graph and in the integration sub-graph, after a
\* decision whose first tool call names a registered route R the next node of
\* the graph is the Worker registered for R, and the next node to run in that
\* graph is that Worker.
C1_RoutingToRegisteredWorker == []RoutedToWorker /\ [][WorkerRunsFirst]_vars

\* a nested decision is pending: the top-level graph waits in
\* integration_agent while the integration supervisor has chosen mapping_agent
C1_Witness ==
    /\ Len(stack) = 2
    /\ DecidedRegistered(stack[1]) /\ stack[1].node = "integration_agent"
    /\ DecidedRegistered(stack[2]) /\ stack[2].node = "mapping_agent"

\* C2: in every routing graph, a decision whose first tool call names a
\* route (or update type) outside the registered set leads to the node
\* handle_error.
C2_UnregisteredRouteReachesError ==
    \A f \in Frames :
        (JustDecided(f)
         /\ DecidedRoute(f.graph, Last(f.messages)) \notin RegisteredRoutes(f.graph))
            => f.node = "handle_error"


Contains(content, part) == \E i \in 1..Len(content) : content[i] = part

\* C3: after handle_error ran, the last message is one tool message
\* correlated to the offending tool call, its content contains the route
\* value the decision supplied, and the next node is the graph's Router.
C3_ErrorNodeNamesTheRoute ==
    \A f \in Frames :
        f.prev = "handle_error" =>
            LET n == Len(f.messages)
                decision == f.messages[n - 1]
                msg == f.messages[n]
            IN /\ IsDecision(decision)
               /\ msg.role = "tool"
               /\ msg.tool_call_id = decision.tool_calls[1].id
               /\ Contains(msg.content, DecidedRoute(f.graph, decision))
               /\ f.node = EntryNode(f.graph)

IsPlain(m) == m.role = "ai" /\ Len(m.tool_calls) = 0

PlainEndsGraph ==
    /\ \A f \in Frames :
          (f.prev = EntryNode(f.graph) /\ IsPlain(Last(f.messages))) => f.node = End
    /\ status = "done" =>
          /\ stack[1].node = End
          /\ IsPlain(Last(stack[1].messages))
          /\ response = Last(stack[1].messages).content

EndedGraphIsLeft ==
    \A i \in 1..Len(stack) :
        (stack[i].node = End /\ turns' = turns) =>
            IF i <= Len(stack')
            THEN stack'[i] = stack[i]
            ELSE /\ Len(stack') = i - 1
                 /\ Last(stack'[i - 1].messages).role = "tool"
                 /\ Last(stack'[i - 1].messages).content = Last(stack[i].messages).content

\* C4: a decision without tool call ends its graph: the graph takes no
\* further step, the turn's response is that message's content, and a nested
\* graph's caller receives that content.
C4_PlainDecisionIsTheResponse == []PlainEndsGraph /\ [][EndedGraphIsLeft]_vars

\* a turn that ended with a plain answer after a nested graph had ended
\* with one
C4_Witness ==
    /\ status = "done"
    /\ response = <<"answer">>
    /\ \E i \in 1..Len(history) :
          history[i].role = "tool" /\ history[i].content = <<"answer">>

\* C5: the node that follows a Worker or the error node is the Router of
\* the same graph.
C5_WorkerReturnsToRouter ==
    \A f \in Frames :
        f.prev \in WorkerNodes(f.graph) \cup {"handle_error"}
            => f.node = EntryNode(f.graph)

\* C6: no Worker's exception ends the graph invocation: a graph never
\* stops with an exception raised by one of its Workers.
C6_WorkerExceptionContained ==
    \A f \in Frames : ~(f.node = Raised /\ f.prev \in WorkerNodes(f.graph))


IsMulti(m) == m.role = "ai" /\ Len(m.tool_calls) >= 2

\* the node a decision naming r selects
ExpectedNode(g, r) == IF r \in RegisteredRoutes(g) THEN WorkerFor(g, r) ELSE "handle_error"

\* C7: of a decision with two or more tool calls that a graph invocation
\* took only the first is honoured: the node selected by the first call's route is the one that
\* runs, and exactly one tool message, correlated to the first call's id,
\* stands between the decision and the Router's next message.
C7_OnlyFirstToolCallHonoured ==
    \A f \in Frames : \A k \in (f.base + 1)..Len(f.messages) :
        IsMulti(f.messages[k]) =>
            LET n == Len(f.messages)
                first == f.messages[k].tool_calls[1]
                target == ExpectedNode(f.graph, DecidedRoute(f.graph, f.messages[k]))
            IN /\ (k = n /\ f.prev = EntryNode(f.graph) /\ target # "handle_error")
                      => f.node = target
               /\ (k = n /\ f.prev # EntryNode(f.graph))
                      => (f.prev = target /\ f.node = Raised)
               /\ k < n => /\ f.messages[k + 1].role = "tool"
                           /\ f.messages[k + 1].tool_call_id = first.id
               /\ k = n - 1 => \/ f.prev = target /\ f.node = EntryNode(f.graph)
                               \/ f.prev = EntryNode(f.graph) /\ f.node = Raised
               /\ k < n - 1 => f.messages[k + 2].role = "ai"

\* the top-level Worker chosen by the first of two calls naming different
\* Workers has answered and the supervisor is next
C7_Witness ==
    \E f \in Frames :
        LET n == Len(f.messages) IN
        /\ f.graph = "iiot"
        /\ n >= 3
        /\ IsMulti(f.messages[n - 1])
        /\ f.messages[n - 1].tool_calls[1].args["route"] = "update_customer"
        /\ f.messages[n - 1].tool_calls[2].args["route"] = "survey"
        /\ f.messages[n].role = "tool"
        /\ f.prev = "update_customer"
        /\ f.node = "supervisor"

\* the ai messages before position i that carry a tool call with this id
Callers(messages, i, id) ==
    {j \in 1..(i - 1) :
        /\ messages[j].role = "ai"
        /\ \E t \in 1..Len(messages[j].tool_calls) : messages[j].tool_calls[t].id = id}

Correlated(messages) ==
    \A i \in 1..Len(messages) :
        messages[i].role = "tool"
            => Cardinality(Callers(messages, i, messages[i].tool_call_id)) = 1

\* C8: in the session's history and in the state of every graph invocation,
\* each tool message's tool_call_id is the id of a tool call of exactly one
\* earlier ai message.
C8_ToolMessagesCorrelated ==
    /\ Correlated(history)
    /\ \A f \in Frames : Correlated(f.messages)

\* the history holds a tool message and a nested graph's error node has
\* answered an unregistered route
C8_Witness ==
    /\ \E i \in 1..Len(history) : history[i].role = "tool"
    /\ Len(stack) = 2
    /\ stack[2].prev = "handle_error"
    /\ Last(stack[2].messages).role = "tool"


----------------------------------------------------------------------------
(* Properties of astream *)

\* C9: as long as nothing failed, is_new is true on the first chunk
\* yielded and on every chunk whose nodes differ from those of the chunk
\* yielded before it, and false on every other chunk.
C9_BoundaryOnEveryChange ==
    spc # "failed" =>
        \A i \in 1..Len(emitted) :
            emitted[i].is_new = (i = 1 \/ emitted[i].nodes # emitted[i - 1].nodes)

CursorStartsAbsent == events = <<>> => current_nodes = None

CursorStep ==
    (Len(events') = Len(events) + 1 /\ spc' = "loop") =>
        LET event == Last(events') IN
        /\ current_nodes' = Some(event.nodes)
        /\ Len(emitted') # Len(emitted) =>
              /\ Len(emitted') = Len(emitted) + 1
              /\ Last(emitted').nodes = event.nodes
              /\ Last(emitted').is_new = (current_nodes # Some(event.nodes))

\* C10: the cursor is absent until the first fragment arrives; the chunk
\* yielded for a fragment has is_new true exactly if the fragment's node path
\* differs from the cursor at that moment; after every fragment the cursor is
\* the fragment's node path.
C10_CursorDecidesIsNew == []CursorStartsAbsent /\ [][CursorStep]_vars

\* a fragment that yields nothing moved the cursor away and the next chunk,
\* on the path of the chunk before it, is marked new
C10_Witness ==
    /\ spc = "loop"
    /\ Len(events) = 3
    /\ events[2].type = "AIMessage"
    /\ events[1].nodes = events[3].nodes
    /\ events[2].nodes # events[3].nodes
    /\ Len(emitted) = 2
    /\ emitted[2].is_new
    /\ current_nodes = Some(events[3].nodes)

\* the content of a diagnostic chunk starts with the "error: " prefix
IsDiagnostic(content) == Len(content) >= 1 /\ content[1] = "error: "

FailureChunkIsLast ==
    spc = "failed" => (Len(emitted) >= 1 /\ IsDiagnostic(Last(emitted).content))

FailureStep ==
    /\ (spc = "loop" /\ spc' = "failed") =>
          /\ Len(emitted') = Len(emitted) + 1
          /\ ButLast(emitted') = emitted
          /\ IsDiagnostic(Last(emitted').content)
    /\ spc = "failed" => (emitted' = emitted /\ spc' = "failed")
    /\ spc' \in {"loop", "done", "failed"}

\* C11: when the traversal raises (before the first fragment, between
\* fragments or while a chunk is built), astream yields exactly one more
\* chunk, whose content is a diagnostic, yields nothing after it and ends:
\* the stream is over and no exception has left astream.
C11_FailureYieldsOneLastChunk == []FailureChunkIsLast /\ [][FailureStep]_vars

\* the stream failed after chunks had been yielded, and one chunk more
\* than the fragments that were built stands at its end
C11_Witness ==
    /\ spc = "failed"
    /\ Len(events) = 2
    /\ Len(emitted) = 3
    /\ ~IsDiagnostic(emitted[2].content)
    /\ IsDiagnostic(emitted[3].content)

\* C12: the chunk astream yields on a failure has role ai and is_new true.
C12_FailureChunkIsBoundary ==
    spc = "failed" => (Last(emitted).role = "ai" /\ Last(emitted).is_new)

IsFragment(event) == event.type \in {"AIMessageChunk", "ToolMessage"}

\* the chunk c carries what the fragment event carries
ChunkOf(event, c) ==
    /\ c.nodes = event.nodes
    /\ c.content = event.content
    /\ c.tool_call_id = event.tool_call_id
    /\ c.role = (IF event.type = "ToolMessage" THEN "tool" ELSE "ai")

\* the chunks yielded for fragments: all of them but the failure chunk
FragmentChunks == IF spc = "failed" THEN ButLast(emitted) ELSE emitted

\* C13: the chunks yielded for fragments are, in arrival order, one chunk
\* for each AI fragment and each tool message that arrived and was built,
\* carrying its node path, content and tool_call_id; at most the fragment
\* whose chunk failed to build has none.
C13_ChunksFollowArrivalOrder ==
    LET fragments == SelectSeq(events, IsFragment) IN
    /\ Len(FragmentChunks) <= Len(fragments)
    /\ Len(fragments) - Len(FragmentChunks) <= (IF spc = "failed" THEN 1 ELSE 0)
    /\ \A i \in 1..Len(FragmentChunks) : ChunkOf(fragments[i], FragmentChunks[i])

\* a tool message, a message that yields nothing and an AI fragment of
\* another path arrived, and two chunks were yielded in that order
C13_Witness ==
    /\ spc = "done"
    /\ Len(events) = 3
    /\ events[1].type = "ToolMessage"
    /\ events[2].type = "AIMessage"
    /\ events[3].type = "AIMessageChunk"
    /\ events[3].nodes # events[1].nodes
    /\ Len(emitted) = 2
    /\ emitted[1].role = "tool" /\ emitted[1].tool_call_id = events[1].tool_call_id
    /\ emitted[2].role = "ai" /\ emitted[2].nodes = events[3].nodes

----------------------------------------------------------------------------
(* Properties of the turns and of the history *)

\* C14: while the session id of the turns resolves to no session, no graph
\* has executed: no node ran, no message was added to a history and no
\* model call was made.
C14_UnresolvedSessionRunsNothing ==
    FindSession(sessions, session_id) = {} =>
        /\ status = "idle"
        /\ stack = <<>>
        /\ history = <<>>
        /\ calls = 0

HumanCount(messages) ==
    Cardinality({i \in 1..Len(messages) : messages[i].role = "human"})

\* the history holds one human message for each turn, and in the state of
\* the turn's graph it is the last message of the input: every message a
\* node added comes after it
OneHumanPerTurn ==
    /\ HumanCount(history) = turns
    /\ stack # <<>> =>
          LET f == stack[1] IN
          /\ f.base >= 1
          /\ f.messages[f.base].role = "human"
          /\ \A k \in (f.base + 1)..Len(f.messages) : f.messages[k].role # "human"

TurnAddsHuman ==
    turns' = turns + 1 =>
        \E c \in HumanContents :
            /\ history' = Append(history, HumanMessage(c))
            /\ Len(stack') = 1
            /\ stack'[1].messages = history'
            /\ stack'[1].prev = Start
            /\ stack'[1].node = EntryNode(app)

\* C15: each turn adds exactly one human message, carrying the submitted
\* content, to the session's history, and it is there before the Router or
\* a Worker of that turn has run.
C15_OneHumanMessagePerTurn == []OneHumanPerTurn /\ [][TurnAddsHuman]_vars

\* a second turn has ended after Workers ran in both
C15_Witness ==
    /\ turns = 2
    /\ status = "done"
    /\ HumanCount(history) = 2
    /\ Len(history) >= 6

IsPrefix(s, t) == Len(s) <= Len(t) /\ SubSeq(t, 1, Len(s)) = s

HistoryGrows == IsPrefix(history, history')

\* a turn starts a new invocation; within a turn a frame that stays on the
\* stack is the same invocation
FramesGrow ==
    turns' = turns =>
        \A i \in 1..Len(stack) :
            i <= Len(stack') => IsPrefix(stack[i].messages, stack'[i].messages)

\* C16: every step leaves the history it found as a prefix of the history
\* it leaves, in the session's history and, through the steps of a turn,
\* in the state of every graph invocation in progress.
C16_HistoryIsAppendOnly == [][HistoryGrows /\ FramesGrow]_vars

\* the history holds a decision, a Worker's answer and the Router's next
\* message, and a later turn has added to it
C16_Witness ==
    /\ turns = 2
    /\ Len(history) >= 5
    /\ history[1].role = "human"
    /\ history[2].role = "ai"
    /\ history[3].role = "tool"
    /\ history[4].role = "ai"
    /\ history[5].role = "human"

----------------------------------------------------------------------------
(* Properties of the reads and reconciliations of the persisted entities *)

Reconcilers == {"update_customer", "update_survey", "update_factory", "update_user"}

\* C17: a node that read an entity whose key is absent did not fail in the
\* read and went on with the empty baseline.
C17_AbsentReadsAsEmpty ==
    op.absent => (op.raised # "read" /\ op.existing = EmptyDoc)

\* C18: a reconciliation whose extraction returned no response wrote
\* nothing to a store and reported "no updates" as its result.
C18_ZeroResponsesIsNoUpdate ==
    (op.node \in Reconcilers /\ op.raised # "read" /\ Len(op.responses) = 0) =>
        /\ op.writes = <<>>
        /\ repo = op.before.repo
        /\ store = op.before.store
        /\ op.raised = ""
        /\ op.content = <<"no updates">>

\* C19: a reconciliation in which a response failed validation left every
\* persisted entity as it was before the Worker ran.
C19_InvalidResponseLeavesEntities ==
    op.raised = "validate" => (repo = op.before.repo /\ store = op.before.store)

\* the entity a response validates to under the schema of the node
Validated(node, resp) ==
    CASE node = "update_customer" -> Customer(resp)
      [] node = "update_survey" -> SurveyFactory(resp)
      [] node = "update_factory" -> Factory(resp)
      [] node = "update_user" -> UserProfile(resp)

\* C20: a reconciliation made at most one store write, and the value it
\* wrote is the first of the responses that is valid.
C20_OnlyFirstValidResponseStored ==
    op.node \in Reconcilers =>
        /\ Len(op.writes) <= 1
        /\ Len(op.writes) = 1 =>
              \E i \in 1..Len(op.responses) :
                  /\ Validated(op.node, op.responses[i]).ok
                  /\ \A j \in 1..(i - 1) : ~Validated(op.node, op.responses[j]).ok
                  /\ op.writes[1].value = Validated(op.node, op.responses[i]).value

\* the find that reads what a store wrote
FindOf(node) ==
    CASE node = "store_customer" -> "find_customer"
      [] node = "store_factory" -> "find_factory"
      [] node = "store_survey" -> "find_survey"
      [] OTHER -> "none"

StoreThenFind ==
    (op'.node = FindOf(op.node) /\ op'.key = op.key) =>
        /\ op'.raised = ""
        /\ ~op'.absent
        /\ op'.existing = op.writes[1].value

RanAgain ==
    /\ op' # op
    /\ op'.node = op.node
    /\ op'.key = op.key
    /\ op'.responses = op.responses

SecondRunPersistsTheSame ==
    (RanAgain /\ op.node \in {"update_customer", "update_survey", "update_user"}) =>
        (repo' = repo /\ store' = store)

Entry(collection, k) == IF k \in DOMAIN collection THEN <<collection[k]>> ELSE <<>>

\* every document of the collection that differs between before and after
\* belongs to customer c
OnlyOwnedChanged(before, after, c) ==
    \A k \in Keys :
        Entry(after, k) # Entry(before, k) =>
            \A doc \in {Entry(before, k)[i] : i \in 1..Len(Entry(before, k))}
                     \cup {Entry(after, k)[i] : i \in 1..Len(Entry(after, k))} :
                doc.customer_id = c

\* C23: a reconciliation under the context key c left unchanged every
\* customer keyed otherwise than c and every factory and survey owned by
\* another customer than c.
C23_ReconciliationTouchesOnlyItsKey ==
    op.node \in {"update_customer", "update_survey", "update_factory"} =>
        /\ \A k \in Keys \ {op.key} :
              Entry(repo.customers, k) = Entry(op.before.repo.customers, k)
        /\ OnlyOwnedChanged(op.before.repo.factories, repo.factories, op.key)
        /\ OnlyOwnedChanged(op.before.repo.survey_factories, repo.survey_factories,
                            op.key)
----------------------------------------------------------------------------
(* Properties of the context window *)

\* C24: every window selected for a Router or a Worker holds at most
\* MaxTokens messages and, unless it is empty, starts with a human message.
C24_WindowFitsAndStartsOnHuman ==
    /\ Len(recent_messages.window) <= MaxTokens
    /\ recent_messages.window # <<>> => recent_messages.window[1].role = "human"

\* a window was cut to the budget from a longer history, and cut again to
\* start on a human message
C24_Witness ==
    /\ recent_messages.node = "supervisor"
    /\ Len(recent_messages.messages) > MaxTokens
    /\ recent_messages.window # <<>>
    /\ Len(recent_messages.window) < MaxTokens
Suffixes(messages) ==
    {SubSeq(messages, i, Len(messages)) : i \in 1..(Len(messages) + 1)}

\* fits the budget and, unless empty, starts on a human message
Admissible(w) == Len(w) <= MaxTokens /\ (w = <<>> \/ w[1].role = "human")

\* w is the longest admissible suffix of messages
IsMaximalWindow(w, messages) ==
    /\ w \in Suffixes(messages)
    /\ Admissible(w)
    /\ \A v \in Suffixes(messages) : Admissible(v) => Len(v) <= Len(w)

\* the selections whose input ends as a node's input does: the Router's,
\* and the Worker's when the history ends on a human or ai message
EndsAsSelected(sel) ==
    \/ sel.node = "supervisor"
    \/ /\ sel.node = "worker"
       /\ sel.messages # <<>>
       /\ Last(sel.messages).role \in {"human", "ai"}

WindowIsMaximal ==
    EndsAsSelected(recent_messages) =>
        /\ IsMaximalWindow(recent_messages.window, recent_messages.messages)
        /\ (\A i \in 1..Len(recent_messages.messages) :
               recent_messages.messages[i].role # "human") =>
              recent_messages.window = <<>>

\* a selection reads the history it is given and assigns nothing else
SelectionIsPure ==
    (recent_messages' # recent_messages /\ recent_messages'.node # "none") =>
        /\ recent_messages'.messages = history
        /\ history' = history
        /\ UNCHANGED besidesWindow

\* C25: the selected window is the longest trailing run of the history that
\* fits the budget and starts on a human message, empty where the history
\* holds no human message, and selecting it changes no state.
C25_WindowIsMaximalTrailingRun == []WindowIsMaximal /\ [][SelectionIsPure]_vars

\* out of a history longer than the budget, the window that fills the
\* budget was selected
C25_Witness ==
    /\ recent_messages.node \in {"supervisor", "worker"}
    /\ Len(recent_messages.messages) > MaxTokens
    /\ Len(recent_messages.window) = MaxTokens
    /\ Last(recent_messages.messages).role = "ai"
\* C26: whenever update_customer, update_survey or update_user runs, the
\* messages it hands to the extraction end on a human or ai message.
C26_ExtractionInputEndsOnHumanOrAi ==
    (status = "running" /\ Len(stack) > 0
        /\ Top.node \in {"update_customer", "update_survey", "update_user"}) =>
        Last(UpdatedMessages(Top.node, Top.messages)).role \in {"human", "ai"}
----------------------------------------------------------------------------
(* Properties of the nested sub-graphs *)

NestedWorkerNodes ==
    {"survey_agent", "integration_agent", "mapping_agent", "connectivity_agent"}

\* the input a nested run gets from the frame of its caller
InvokedFrom(caller, messages, supervisor_message) ==
    /\ messages = ButLast(caller.messages)
    /\ supervisor_message = FirstToolCall(caller.messages).args["supervisor_message"]

\* every nested graph in progress started from its caller's messages minus
\* the decision, with the supervisor_message of the decision's first tool call
NestedFramesInvokedFromCaller ==
    \A i \in 2..Len(stack) :
        /\ stack[i - 1].node = stack[i].graph
        /\ stack[i].base <= Len(stack[i].messages)
        /\ InvokedFrom(stack[i - 1], SubSeq(stack[i].messages, 1, stack[i].base),
                       stack[i].supervisor_message)

\* a run of the mapping or connectivity agent gets the same input
AgentInvokedFromCaller ==
    (invocation' # invocation) =>
        /\ invocation'.node = Top.node
        /\ Top.node \in {"mapping_agent", "connectivity_agent"}
        /\ InvokedFrom(Top, invocation'.messages, invocation'.supervisor_message)

\* a frame that leaves a nested Worker node has raised, or has gained one
\* tool message: the answer to the decision's first tool call, holding the
\* content of the last message of the sub-graph that ran above it
NestedReturnsOneToolMessage ==
    \A i \in 1..Len(stack) :
        (stack[i].node \in NestedWorkerNodes /\ i <= Len(stack')
            /\ stack'[i] # stack[i]) =>
            \/ /\ stack'[i].node = Raised
               /\ stack'[i].messages = stack[i].messages
            \/ /\ stack'[i].messages =
                     Append(stack[i].messages, Last(stack'[i].messages))
               /\ Last(stack'[i].messages).role = "tool"
               /\ Last(stack'[i].messages).tool_call_id =
                     FirstToolCall(stack[i].messages).id
               /\ i < Len(stack) =>
                     Last(stack'[i].messages).content = Last(stack[i + 1].messages).content

\* C27: a nested sub-graph Worker is invoked with the caller's history
\* minus its last message and with the supervisor_message of the first tool
\* call; the caller gains one tool message holding the content of the
\* sub-graph's last message, and no other message of the sub-graph.
C27_NestedInvocationAndResult ==
    /\ []NestedFramesInvokedFromCaller
    /\ [][AgentInvokedFromCaller /\ NestedReturnsOneToolMessage]_vars

\* the survey agent ran a Worker of its own and ended, and its caller holds
\* one tool message with the content of the agent's last message
C27_Witness ==
    /\ Len(stack) = 1
    /\ Top.graph = "iiot"
    /\ Top.prev = "survey_agent"
    /\ Top.node = "supervisor"
    /\ Last(Top.messages).role = "tool"
    /\ Last(Top.messages).content \in ModelContents
\* a frame under a nested graph in progress does not change; it goes on
\* only in the step that takes the ended or failed nested graph off the stack
CallerWaits ==
    \A i \in 1..(Len(stack) - 1) :
        \/ /\ i <= Len(stack')
           /\ stack'[i] = stack[i]
           /\ i = 1 => history' = history
        \/ /\ Len(stack') = i
           /\ Len(stack) = i + 1
           /\ stack[i + 1].node \in {End, Raised}

\* C28: while a nested sub-graph runs, the graph that called it takes no
\* step and gains no message; the caller goes on only once the nested graph
\* has ended or failed.
C28_CallerWaitsForNestedGraph == [][CallerWaits]_vars

\* a nested graph has taken steps of its own and is still running, under a
\* caller that is still at the node that invoked it
C28_Witness ==
    /\ Len(stack) = 2
    /\ Caller.node = Top.graph
    /\ Len(Top.messages) > Top.base + 1
    /\ Top.node \notin {End, Raised}
    /\ history = Caller.messages
----------------------------------------------------------------------------
(* Properties of turns submitted side by side *)

\* C29: of two turns in flight under one session id, the one submitted
\* later has executed no graph step.
C29_OneActiveTurnPerSession ==
    \A t, u \in TaskIds :
        (Active(t) /\ Active(u) /\ tasks[t].session = tasks[u].session
            /\ tasks[t].started < tasks[u].started) =>
            tasks[u].steps = 0

\* the turn stored a customer
Wrote(t) ==
    \E i \in 1..Len(tasks[t].messages) : tasks[t].messages[i].role = "tool"

\* the customers after the turn ran alone on them
Applied(customers, t) ==
    IF Wrote(t)
    THEN StoreCustomer(customers,
             Customer(Extract(FindCustomer(customers, tasks[t].customer_id).value,
                              tasks[t].patch)).value)
    ELSE customers

\* C30: when two turns of different sessions have ended, each session's
\* history is the one its turn built, and the customers are what one turn
\* after the other would have left.
C30_InterleavingEqualsSerial ==
    \A t, u \in TaskIds :
        (t # u /\ tasks[t].pc = "done" /\ tasks[u].pc = "done"
            /\ tasks[t].session # tasks[u].session
            /\ \A v \in TaskIds \ {t, u} : tasks[v].pc = "idle") =>
            /\ threads[tasks[t].session] = tasks[t].messages
            /\ threads[tasks[u].session] = tasks[u].messages
            /\ repo.customers \in
                  {Applied(Applied(CustomersRepo.customers, t), u),
                   Applied(Applied(CustomersRepo.customers, u), t)}

----------------------------------------------------------------------------
(* A turn that keeps cycling.  The top-level graph is compiled and invoked  *)
(* with a config that names no recursion_limit, so the runtime's default    *)
(* applies: a run may take RecursionLimit steps, and a run that has taken   *)
(* them without reaching __end__ ends with GraphRecursionError.  Every      *)
(* step of this graph adds one message, so the steps a run has taken are    *)
(* the messages its frame gained.                                           *)

\* the default of config["recursion_limit"], which neither ainvoke nor
\* astream overrides
RecursionLimit == 25

\* the steps the run of frame f has taken
Steps(f) == Len(f.messages) - f.base

besidesCycle ==
    <<streamVars, serviceVars, reconcileVars, taskVars, invocationVars, transportVars>>

\* a run that no step limit ends
WithinRecursionLimitAlways(f) == TRUE

\* the run may take another step
WithinRecursionLimit(f) == Steps(f) < RecursionLimit

\* the decisions of a supervisor that has one customer to keep up to date:
\* the plain answer, or RouteIntent{route: "update_customer"}
CycleResponses(id0) ==
    {AIMessage(c, <<>>) : c \in ModelContents}
    \cup {AIMessage(<<>>, <<[id |-> id0, name |-> "RouteIntent",
                             args |-> [route |-> "update_customer",
                                       supervisor_message |-> m]]>>) :
              m \in SupervisorMessages}

\* IIoTApp.call_supervisor + should_continue as one step of the run: the
\* window is trimmed from the state's messages, the model decides, and the
\* conditional edge names the next node
CycleCallSupervisor ==
    /\ Running("iiot", "supervisor")
    /\ Len(stack) = 1
    /\ WithinRecursionLimit(Top)
    /\ recent_messages' =
          [node |-> "supervisor", messages |-> Top.messages,
           window |-> TrimMessages(Top.messages, MaxTokens, {"human"}, {})]
    /\ \E r \in CycleResponses(nextId) :
          LET msgs == Append(Top.messages, r)
              f == NodeReturns(Top, r, ConditionalEdge("iiot", msgs))
          IN /\ stack' = SetTop(f)
             /\ history' = Checkpoint(SetTop(f))
             /\ nextId' = nextId + Len(r.tool_calls)
    /\ UNCHANGED <<app, status, response, calls, turns>>
    /\ UNCHANGED besidesCycle

\* IIoTApp.update_customer as one step of the run, its collaborators
\* returning
CycleUpdateCustomer ==
    /\ Running("iiot", "update_customer")
    /\ Len(stack) = 1
    /\ WithinRecursionLimit(Top)
    /\ LET tool_call == FirstToolCall(Top.messages)
           f == NodeReturns(Top, ToolMessage(<<"updated customer">>, tool_call.id),
                            Edge("iiot", "update_customer"))
       IN /\ stack' = SetTop(f)
          /\ history' = Checkpoint(SetTop(f))
    /\ UNCHANGED <<app, status, response, nextId, calls, turns>>
    /\ UNCHANGED besidesGraph

\* self.app.ainvoke / self.app.astream: the run has a node to run and no
\* step left, and ends with GraphRecursionError
OutOfSteps ==
    /\ status = "running"
    /\ Len(stack) = 1
    /\ Top.node \notin {End, Raised}
    /\ ~WithinRecursionLimit(Top)
    /\ stack' = SetTop([Top EXCEPT !.node = Raised])
    /\ UNCHANGED <<app, history, status, response, nextId, calls, turns>>
    /\ UNCHANGED besidesGraph

CycleInit ==
    /\ GraphInit
    /\ app = "iiot"
    /\ StreamIdle /\ ServiceIdle /\ ReconcileIdle /\ WindowIdle /\ TasksIdle
    /\ TransportIdle

CycleNext ==
    \/ StartTurn
    \/ CycleCallSupervisor
    \/ CycleUpdateCustomer
    \/ OutOfSteps
    \/ InvokeEnds

CycleSpec == CycleInit /\ [][CycleNext]_vars

\* the times the supervisor has run in the run of frame f
SupervisorRuns(f) ==
    Cardinality({i \in (f.base + 1)..Len(f.messages) : f.messages[i].role = "ai"})

----------------------------------------------------------------------------
(* Progress of a turn.  The graph runtime runs the node an edge names as    *)
(* soon as the step before it has ended, and ainvoke returns as soon as     *)
(* the run has ended; only the submission of a turn waits for a caller.     *)

\* a step of the run of a turn, or its end
GraphStep ==
    \/ CallSupervisor
    \/ IntegrationCallSupervisor
    \/ SurveyCallModel
    \/ ProfileCallModel
    \/ UpdateCustomer
    \/ UpdateSurvey
    \/ UpdateUser
    \/ IntegrationHandleError
    \/ SurveyHandleError
    \/ CallMappingAgent
    \/ CallConnectivityAgent
    \/ CallSurveyAgent
    \/ SurveyAgentReturns
    \/ CallIntegrationAgent
    \/ IntegrationAgentReturns
    \/ InvokeEnds

\* the runs of Spec in which a run that can go on does go on
LiveSpec == Spec /\ WF_vars(GraphStep)

\* the last message of frame f is a decision without tool call
PlainDecision(f) ==
    /\ f.prev = EntryNode(f.graph)
    /\ Last(f.messages).role = "ai"
    /\ Last(f.messages).tool_calls = <<>>

\* the top-level Router has emitted a plain decision
TopPlain == status = "running" /\ Len(stack) = 1 /\ Top.node = End

\* a nested Router has emitted a plain decision
NestedPlain == status = "running" /\ Len(stack) = 2 /\ Top.node = End

\* the nested graph's caller has answered its supervisor with a tool message
BackAtSupervisor ==
    /\ Len(stack) = 1
    /\ Top.node = "supervisor"
    /\ Last(Top.messages).role = "tool"

\* a graph reaches its terminal state through a plain decision only, and
\* ainvoke returns through the terminal state only
TerminalOnlyThroughPlain ==
    /\ \A i \in 1..Len(stack) : stack[i].node = End => PlainDecision(stack[i])
    /\ status = "done" => (Len(stack) = 1 /\ Top.node = End)

\* C32: once the top-level Router has emitted a plain decision the turn
\* reaches terminal and ainvoke returns; once a nested Router has emitted
\* one, its caller answers the supervisor, which decides again; and no graph
\* is in its terminal state except through a plain decision of its Router.
C32_PlainDecisionEndsTheTurn ==
    /\ TopPlain ~> (status = "done" /\ response = InvokeResult(Top.messages))
    /\ NestedPlain ~> BackAtSupervisor
    /\ []TerminalOnlyThroughPlain

C32_Witness ==
    /\ status = "done"
    /\ Len(stack) = 1
    /\ Top.node = End
    /\ PlainDecision(Top)
    /\ \E i \in 1..Len(Top.messages) : Top.messages[i].role = "tool"

----------------------------------------------------------------------------
(* Properties of whole turns                                                *)

\* C33: a turn that starts with no persisted customer and is routed to
\* update_customer gets through the supervisor's read and the Worker's
\* read, stores what the extraction returned and answers with a tool
\* message ("updated customer", or "no updates" without a response).
C33_FirstCustomerIsStored ==
    (op.node \in {"supervisor", "update_customer"}
        /\ op.before.repo.customers = <<>>) =>
        /\ op.raised = ""
        /\ op.node = "update_customer" =>
              /\ op.content \in {<<"no updates">>, <<"updated customer">>}
              /\ Len(op.responses) > 0 => repo.customers # <<>>

\* C34: a turn one of whose steps raised does not raise to the caller of
\* ainvoke: ainvoke returns, and what it returns is "error: " followed by
\* the diagnostic.
C34_AinvokeReturnsErrorContent ==
    (Len(stack) = 1 /\ Top.node = Raised /\ status # "running") =>
        /\ status = "done"
        /\ response \in {ErrorContent(e) : e \in Exceptions}

\* C35: the window the supervisor's model call gets in a turn holds the
\* turn's human message: the window is the tail of the state's messages, and
\* it reaches back to the message the turn submitted.
C35_WindowHoldsTheTurnsHumanMessage ==
    (Len(stack) = 1 /\ recent_messages.node = "supervisor"
        /\ Len(recent_messages.messages) >= Top.base) =>
        Len(recent_messages.window) >= Len(recent_messages.messages) - Top.base + 1

\* the messages hold an ai message one of whose tool calls no later tool
\* message answers
Dangling(messages) ==
    \E i \in 1..Len(messages) :
        /\ messages[i].role = "ai"
        /\ \E k \in 1..Len(messages[i].tool_calls) :
              ~\E j \in (i + 1)..Len(messages) :
                  /\ messages[j].role = "tool"
                  /\ messages[j].tool_call_id = messages[i].tool_calls[k].id

\* C36: when a turn starts, every tool call of an ai message of the
\* persisted history is followed by the tool message that answers it, also
\* when the turn before ended with an exception.
C36_NoDanglingToolCallAtTurnStart ==
    (status = "running" /\ Len(stack) = 1 /\ Top.prev = Start) =>
        ~Dangling(ButLast(history))

----------------------------------------------------------------------------
(* Properties of the reads that follow a write                              *)

\* C37: the baseline read that follows an update_survey which stored a
\* SurveyFactory of its customer, under the same customer, gives the entity
\* stored last.
C37_BaselineIsTheStoredSurvey ==
    [][(/\ op.node = "update_survey"
        /\ op.raised = ""
        /\ op.writes # <<>>
        /\ Last(op.writes).value.customer_id = op.key
        /\ op'.node = "model"
        /\ op'.key = op.key) =>
            op'.existing = Last(op.writes).value]_vars

----------------------------------------------------------------------------
(* update_user side by side.  The store is taken at the grain of its items: *)
(* an item is found under its namespace ("users", user_id, "profile") and   *)
(* its key.  asearch, the extraction and aput are awaited one after the     *)
(* other, and another turn's update_user may run between any two of them.   *)

besidesProfiles ==
    <<app, history, stack, status, response, calls, turns, streamVars, serviceVars,
      windowVars, invocationVars, repo, op, reconciliations, threads, transportVars>>

\* a turn that is not in update_user
NoUpdate == [pc |-> "idle", user_id |-> "", id |-> 0, found |-> FALSE]

\* the keys of the items under the namespace of user_id
ProfileKeys(items, user_id) == {k \in DOMAIN items : k[1] = user_id}

\* results[0].key: asearch gives the items in the order they were put
FirstKey(items, user_id) ==
    CHOOSE k \in ProfileKeys(items, user_id) :
        \A j \in ProfileKeys(items, user_id) : k[2] <= j[2]

\* update_user up to the extraction: asearch, id = str(uuid.uuid4()), and
\* id = results[0].key if there is a result
UpdateUserSearches(t) ==
    /\ tasks[t].pc = "idle"
    /\ nextId <= MaxIds
    /\ \E user_id \in Keys :
         LET results == ProfileKeys(store, user_id)
         IN tasks' = [tasks EXCEPT ![t] =
                [pc |-> "searched", user_id |-> user_id,
                 id |-> IF results # {} THEN FirstKey(store, user_id)[2] ELSE nextId,
                 found |-> results # {}]]
    /\ nextId' = nextId + 1
    /\ UNCHANGED store
    /\ UNCHANGED besidesProfiles

\* update_user from the extraction on: no response and "no updates", or
\* aput(namespace, key=id, value=responses[0])
UpdateUserPuts(t) ==
    /\ tasks[t].pc = "searched"
    /\ \E responses \in ResponseLists(ProfileResponses) :
         IF Len(responses) = 0
         THEN UNCHANGED store
         ELSE store' = With(store, <<tasks[t].user_id, tasks[t].id>>, responses[1])
    /\ tasks' = [tasks EXCEPT ![t].pc = "done"]
    /\ UNCHANGED nextId
    /\ UNCHANGED besidesProfiles

\* the turn ends; its coroutine may serve another turn
UpdateUserReturns(t) ==
    /\ tasks[t].pc = "done"
    /\ tasks' = [tasks EXCEPT ![t] = NoUpdate]
    /\ UNCHANGED <<store, nextId>>
    /\ UNCHANGED besidesProfiles

ProfilesInit ==
    /\ GraphInit
    /\ app = "user_profile_manager"
    /\ StreamIdle
    /\ ServiceIdle
    /\ WindowIdle
    /\ repo = EmptyRepo
    /\ store = <<>>
    /\ op = NoOperation
    /\ reconciliations = 0
    /\ tasks = [t \in TaskIds |-> NoUpdate]
    /\ threads = <<>>
    /\ TransportIdle

ProfilesNext ==
    \/ \E t \in TaskIds : UpdateUserSearches(t)
    \/ \E t \in TaskIds : UpdateUserPuts(t)
    \/ \E t \in TaskIds : UpdateUserReturns(t)

ProfilesSpec == ProfilesInit /\ [][ProfilesNext]_vars

\* C38: the namespace of every user holds at most one profile item, whatever
\* update_user executions have run and however they interleaved.
C38_OneProfileItemPerUser ==
    \A user_id \in Keys : Cardinality(ProfileKeys(store, user_id)) <= 1

----------------------------------------------------------------------------
(* The transports' stream_message handlers.  StreamMessageEndpoint.handle   *)
(* passes on each chunk of the service's stream as it comes, and raises     *)
(* where the stream raises.  A handler sends one frame per chunk and then   *)
(* its terminal frame.                                                      *)

besidesTransport ==
    <<graphVars, streamVars, serviceVars, reconcileVars, windowVars, invocationVars,
      taskVars>>

Transports == {"http", "nats"}

\* the chunks a stream may yield
TransportChunks ==
    {[role |-> "ai", content |-> <<"answer">>],
     [role |-> "tool", content |-> <<"result">>]}

\* f"data: {chunk.model_dump_json()}\n\n" / chunk.model_dump_json().encode()
DataFrame(chunk) == [type |-> "data", body |-> chunk]

\* "data: [DONE]\n\n" / b"[DONE]"
DoneFrame == [type |-> "done", body |-> <<>>]

\* error_data = {"error": str(e), "type": "error"}
ErrorFrame(e) == [type |-> "error", body |-> e]

Sends(pc, chunks, frames) ==
    delivery' = [delivery EXCEPT !.pc = pc, !.chunks = chunks, !.frames = frames]

\* one pass of `async for chunk in stream` in the handler of a transport
ChunkPasses(transport) ==
    /\ delivery.transport = transport
    /\ delivery.pc = "streaming"
    /\ Len(delivery.chunks) < MaxEvents
    /\ \E chunk \in TransportChunks :
         Sends("streaming", Append(delivery.chunks, chunk),
               Append(delivery.frames, DataFrame(chunk)))

\* HTTPTransport.generate_sse: yield f"data: {chunk.model_dump_json()}\n\n"
HTTPSendsChunk == ChunkPasses("http") /\ UNCHANGED besidesTransport

\* HTTPTransport.generate_sse, the stream exhausted: yield "data: [DONE]\n\n"
HTTPStreamEnds ==
    /\ delivery.transport = "http"
    /\ delivery.pc = "streaming"
    /\ Sends("done", delivery.chunks, Append(delivery.frames, DoneFrame))
    /\ UNCHANGED besidesTransport

\* HTTPTransport.generate_sse, the stream raised: the except branch yields
\* the error frame
HTTPStreamRaises ==
    /\ delivery.transport = "http"
    /\ delivery.pc = "streaming"
    /\ \E e \in Exceptions :
         Sends("failed", delivery.chunks, Append(delivery.frames, ErrorFrame(e)))
    /\ UNCHANGED besidesTransport

\* NATSTransport.stream_message_handler: await self.nc.publish(msg.reply, ...)
NATSPublishesChunk == ChunkPasses("nats") /\ UNCHANGED besidesTransport

\* NATSTransport.stream_message_handler, the stream exhausted:
\* await msg.respond(b"[DONE]")
NATSStreamEnds ==
    /\ delivery.transport = "nats"
    /\ delivery.pc = "streaming"
    /\ Sends("done", delivery.chunks, Append(delivery.frames, DoneFrame))
    /\ UNCHANGED besidesTransport

\* NATSTransport.stream_message_handler, the stream raised: the handler has
\* no try/except and ends with the exception
NATSStreamRaises ==
    /\ delivery.transport = "nats"
    /\ delivery.pc = "streaming"
    /\ Sends("raised", delivery.chunks, delivery.frames)
    /\ UNCHANGED besidesTransport

TransportInit ==
    /\ GraphInit
    /\ app = "iiot"
    /\ StreamIdle
    /\ ServiceIdle
    /\ ReconcileIdle
    /\ WindowIdle
    /\ TasksIdle
    /\ delivery \in {[transport |-> t, pc |-> "streaming", chunks |-> <<>>,
                      frames |-> <<>>] : t \in Transports}

TransportNext ==
    \/ HTTPSendsChunk
    \/ HTTPStreamEnds
    \/ HTTPStreamRaises
    \/ NATSPublishesChunk
    \/ NATSStreamEnds
    \/ NATSStreamRaises

TransportSpec == TransportInit /\ [][TransportNext]_vars

\* C39: a streamed response that has ended, the stream exhausted or raised,
\* is the stream's chunks in their order, one frame each, followed by one
\* terminal frame ("[DONE]" or an error frame) and nothing after it; while
\* it runs, the frames sent are the chunks so far.
C39_ChunksThenOneTerminalFrame ==
    LET frames == delivery.frames
        n == Len(delivery.chunks)
        data == [i \in 1..n |-> DataFrame(delivery.chunks[i])]
    IN /\ delivery.pc = "streaming" => frames = data
       /\ delivery.pc \notin {"idle", "streaming"} =>
             /\ Len(frames) = n + 1
             /\ SubSeq(frames, 1, n) = data
             /\ frames[n + 1].type \in {"done", "error"}

====
